---- MODULE Spec2Model ----
(***************************************************************************)
(* Model of jsonex: extraction of JSON objects/arrays embedded in noisy    *)
(* text.  Bytes are integers 0..255, byte slices are sequences, and every  *)
(* function of the source that the properties depend on is an operator     *)
(* computed the way the code computes it.                                  *)
(***************************************************************************)
EXTENDS Integers, Sequences, FiniteSets, TLC

\* ------------------------------------------------------------------------
\* Byte values used by the code
\* ------------------------------------------------------------------------
SP == 32
TAB == 9
LF == 10
CR == 13
BS == 8
FF == 12
QUOTE == 34
PLUS == 43
COMMA == 44
MINUS == 45
DOT == 46
SLASH == 47
COLON == 58
LBRACKET == 91
BACKSLASH == 92
RBRACKET == 93
LBRACE == 123
RBRACE == 125
Ch0 == 48
Ch1 == 49
Ch9 == 57
ChA == 65
ChF == 70
Cha == 97
Chb == 98
Che == 101
ChE == 69
Chf == 102
Chl == 108
Chn == 110
Chr == 114
Chs == 115
Cht == 116
Chu == 117
Chx == 120

Min(a, b) == IF a < b THEN a ELSE b

\* v := value; Body(v): a local assignment followed by the rest of the function.
With(v, Body(_)) == Body(v)

\* ------------------------------------------------------------------------
\* Errors: the *Error kinds of the package, io.EOF, and the errors of the
\* standard library deserializer.
\* ------------------------------------------------------------------------
NoErr == [t |-> "nil", m |-> ""]
ioEOF == [t |-> "io.EOF", m |-> "EOF"]
newSyntaxError(msg) == [t |-> "ErrSyntax", m |-> msg]
newUnicodeError(msg) == [t |-> "ErrUnicode", m |-> msg]
newEscapeError(msg) == [t |-> "ErrEscape", m |-> msg]
newEOFError(msg) == [t |-> "ErrEOF", m |-> msg]
newInvalidJSONError(msg) == [t |-> "ErrInvalidJSON", m |-> msg]
jsonSyntaxError == [t |-> "json.SyntaxError", m |-> "invalid character"]
jsonUnmarshalTypeError == [t |-> "json.UnmarshalTypeError", m |-> "cannot unmarshal"]

\* ------------------------------------------------------------------------
\* options
\* ------------------------------------------------------------------------
DefaultMaxDepth == 1000
DefaultBufferSize == 4096
defaultOptions == [maxDepth |-> DefaultMaxDepth, bufferSize |-> DefaultBufferSize]

\* WithMaxDepth / WithBufferSize ignore non-positive arguments.
WithMaxDepth(o, depth) == IF depth > 0 THEN [o EXCEPT !.maxDepth = depth] ELSE o
WithBufferSize(o, size) == IF size > 0 THEN [o EXCEPT !.bufferSize = size] ELSE o

\* ------------------------------------------------------------------------
\* Readers.  kind "bytes" is the package's bytesReader (returns io.EOF
\* together with the last bytes); kind "strings" is a reader that reports
\* io.EOF only on the read after the last byte (strings.Reader).
\* ------------------------------------------------------------------------
newReader(data, kind) == [data |-> data, pos |-> 0, kind |-> kind]

\* An io.Reader that returns its data in the pieces of plan, one per Read
\* (the rest at once when the plan is used up), and reports io.EOF with
\* the last piece or by a Read of its own.
newChunkedReader(data, plan, eofWithLast) ==
    [data |-> data, pos |-> 0, kind |-> "chunked", plan |-> plan, eofWithLast |-> eofWithLast]

chunkedRead(r, room) ==
    IF r.pos >= Len(r.data)
    THEN [r |-> r, got |-> <<>>, eof |-> TRUE]
    ELSE With(Min(Min(room, Len(r.data) - r.pos),
                  IF r.plan = <<>> THEN Len(r.data) ELSE Head(r.plan)), LAMBDA n :
            [r |-> [r EXCEPT !.pos = r.pos + n,
                             !.plan = IF r.plan = <<>> THEN <<>> ELSE Tail(r.plan)],
             got |-> SubSeq(r.data, r.pos + 1, r.pos + n),
             eof |-> (r.eofWithLast /\ n > 0 /\ r.pos + n >= Len(r.data))])

\* Read(p) with len(p) = room: <<reader', bytes read, eof?>>
readerRead(r, room) ==
    IF r.kind = "chunked" THEN chunkedRead(r, room)
    ELSE IF r.pos >= Len(r.data)
    THEN [r |-> r, got |-> <<>>, eof |-> TRUE]
    ELSE With(Min(room, Len(r.data) - r.pos), LAMBDA n :
             With([r EXCEPT !.pos = r.pos + n], LAMBDA r2 :
            [r |-> r2,
             got |-> SubSeq(r.data, r.pos + 1, r.pos + n),
             eof |-> (r.kind = "bytes" /\ r2.pos >= Len(r.data))]))

\* ------------------------------------------------------------------------
\* scanner
\* ------------------------------------------------------------------------
\* seen is not a field of the struct: it records how many leading bytes of
\* the input peek has returned so far, for the properties about streaming.
newScanner(reader, bufferSize) ==
    [reader |-> reader, cap |-> bufferSize, buffer |-> <<>>, pos |-> 0,
     size |-> 0, line |-> 1, column |-> 1, offset |-> 0, eof |-> FALSE,
     seen |-> 0]

\* buffer holds the s.size valid bytes of the Go buffer.
fillBuffer(s) ==
    IF s.eof THEN [s |-> s, err |-> ioEOF]
    ELSE
      With(IF s.pos > 0 /\ s.pos < s.size
                THEN [s EXCEPT !.buffer = SubSeq(s.buffer, s.pos + 1, s.size),
                               !.size = s.size - s.pos, !.pos = 0]
                ELSE IF s.pos >= s.size
                THEN [s EXCEPT !.buffer = <<>>, !.size = 0, !.pos = 0]
                ELSE s, LAMBDA s1 :
          With(readerRead(s1.reader, s1.cap - s1.size), LAMBDA rd :
          With([s1 EXCEPT !.reader = rd.r,
                           !.buffer = s1.buffer \o rd.got,
                           !.size = s1.size + Len(rd.got)], LAMBDA s2 :
         IF rd.eof
         THEN [s |-> [s2 EXCEPT !.eof = TRUE],
               err |-> IF s2.size = 0 THEN ioEOF ELSE NoErr]
         ELSE [s |-> s2, err |-> NoErr])))

peek(s) ==
    With(IF s.pos >= s.size THEN fillBuffer(s) ELSE [s |-> s, err |-> NoErr], LAMBDA f :
       IF f.err # NoErr THEN [s |-> f.s, b |-> 0, err |-> f.err]
       ELSE IF f.s.pos >= f.s.size THEN [s |-> f.s, b |-> 0, err |-> ioEOF]
       ELSE [s |-> [f.s EXCEPT !.seen = IF @ > f.s.offset THEN @ ELSE f.s.offset + 1],
             b |-> f.s.buffer[f.s.pos + 1], err |-> NoErr])

\* next that counts a line feed as any other byte.
nextNoLineFeed(s) ==
    With(peek(s), LAMBDA p :
       IF p.err # NoErr THEN p
       ELSE [s |-> [p.s EXCEPT !.pos = p.s.pos + 1,
                               !.offset = p.s.offset + 1,
                               !.column = p.s.column + 1],
             b |-> p.b, err |-> NoErr])

next(s) ==
    With(peek(s), LAMBDA p :
       IF p.err # NoErr THEN p
       ELSE [s |-> [p.s EXCEPT !.pos = p.s.pos + 1,
                               !.offset = p.s.offset + 1,
                               !.line = IF p.b = LF THEN p.s.line + 1 ELSE p.s.line,
                               !.column = IF p.b = LF THEN 1 ELSE p.s.column + 1],
             b |-> p.b, err |-> NoErr])

isWhitespace(b) == b = SP \/ b = TAB \/ b = LF \/ b = CR

RECURSIVE skipWhitespace(_)
skipWhitespace(s) ==
    With(peek(s), LAMBDA p :
       IF p.err # NoErr THEN [s |-> p.s, err |-> p.err]
       ELSE IF ~isWhitespace(p.b) THEN [s |-> p.s, err |-> NoErr]
       ELSE With(next(p.s), LAMBDA n :
               IF n.err # NoErr THEN [s |-> n.s, err |-> n.err]
               ELSE skipWhitespace(n.s)))

\* findJSONStart that stops at '{' only.
RECURSIVE findJSONStartObjectOnly(_)
findJSONStartObjectOnly(s) ==
    With(skipWhitespace(s), LAMBDA w :
       IF w.err # NoErr THEN [s |-> w.s, b |-> 0, err |-> w.err]
       ELSE With(peek(w.s), LAMBDA p :
               IF p.err # NoErr THEN p
               ELSE IF p.b = LBRACE THEN p
               ELSE With(next(p.s), LAMBDA n :
                       IF n.err # NoErr THEN [s |-> n.s, b |-> 0, err |-> n.err]
                       ELSE findJSONStartObjectOnly(n.s))))

RECURSIVE findJSONStart(_)
findJSONStart(s) ==
    With(skipWhitespace(s), LAMBDA w :
       IF w.err # NoErr THEN [s |-> w.s, b |-> 0, err |-> w.err]
       ELSE With(peek(w.s), LAMBDA p :
               IF p.err # NoErr THEN p
               ELSE IF p.b = LBRACE \/ p.b = LBRACKET THEN p
               ELSE With(next(p.s), LAMBDA n :
                       IF n.err # NoErr THEN [s |-> n.s, b |-> 0, err |-> n.err]
                       ELSE findJSONStart(n.s))))

\* ------------------------------------------------------------------------
\* parser: every function returns the scanner after the call, the contents
\* of the output buffer it wrote to, and the error.
\* ------------------------------------------------------------------------
isHexDigit(b) ==
    (b >= Ch0 /\ b <= Ch9) \/ (b >= ChA /\ b <= ChF) \/ (b >= Cha /\ b <= Chf)

\* checkDepth with "p.depth > p.options.maxDepth".
checkDepthLate(depth, o) ==
    IF depth > o.maxDepth
    THEN newSyntaxError("maximum nesting depth exceeded")
    ELSE NoErr

\* checkDepth is called after p.depth++ with the incremented counter.
checkDepth(depth, o) ==
    IF depth >= o.maxDepth
    THEN newSyntaxError("maximum nesting depth exceeded")
    ELSE NoErr

Fail(s, e) == [s |-> s, buf |-> <<>>, err |-> e]
Ok(s, buf) == [s |-> s, buf |-> buf, err |-> NoErr]

\* The four hex digits of a \u escape, i of them still to read.
RECURSIVE parseStringHex(_, _, _)
parseStringHex(s, buf, i) ==
    IF i = 0 THEN Ok(s, buf)
    ELSE With(next(s), LAMBDA n :
            IF n.err # NoErr THEN Fail(n.s, n.err)
            ELSE IF ~isHexDigit(n.b)
            THEN Fail(n.s, newEscapeError("invalid hex digit in unicode escape"))
            ELSE parseStringHex(n.s, Append(buf, n.b), i - 1))

\* Sequence length announced by a leading byte >= 0x80, 0 when invalid.
utf8SeqLen(b) ==
    IF (b \div 32) = 6 THEN 2
    ELSE IF (b \div 16) = 14 THEN 3
    ELSE IF (b \div 8) = 30 THEN 4
    ELSE 0

\* The continuation bytes read and copied without the 10xxxxxx test.
RECURSIVE parseStringUTF8NoCheck(_, _, _)
parseStringUTF8NoCheck(s, buf, i) ==
    IF i = 0 THEN Ok(s, buf)
    ELSE With(next(s), LAMBDA n :
            IF n.err # NoErr THEN Fail(n.s, n.err)
            ELSE parseStringUTF8NoCheck(n.s, Append(buf, n.b), i - 1))

\* The continuation bytes of a multi-byte sequence, i of them still to read.
RECURSIVE parseStringUTF8(_, _, _)
parseStringUTF8(s, buf, i) ==
    IF i = 0 THEN Ok(s, buf)
    ELSE With(next(s), LAMBDA n :
            IF n.err # NoErr THEN Fail(n.s, n.err)
            ELSE IF (n.b \div 64) # 2
            THEN Fail(n.s, newUnicodeError("invalid UTF-8 continuation byte"))
            ELSE parseStringUTF8(n.s, Append(buf, n.b), i - 1))

hexUpper(d) == IF d < 10 THEN Ch0 + d ELSE ChA + d - 10

\* Re-emission of a raw control byte (< 0x20) inside a string.
controlEscape(b) ==
    IF b = LF THEN <<BACKSLASH, Chn>>
    ELSE IF b = TAB THEN <<BACKSLASH, Cht>>
    ELSE IF b = CR THEN <<BACKSLASH, Chr>>
    ELSE IF b = BS THEN <<BACKSLASH, Chb>>
    ELSE IF b = FF THEN <<BACKSLASH, Chf>>
    ELSE <<BACKSLASH, Chu, Ch0, Ch0, IF b < 16 THEN Ch0 ELSE Ch1, hexUpper(b % 16)>>

\* The body of the loop of parseString, after the opening quote.
RECURSIVE parseStringLoop(_, _)

\* The loop of parseString made to take a quote that follows an escaped
\* backslash as part of the string.
parseStringLoopLookBack(s, buf) ==
    With(next(s), LAMBDA n :
       IF n.err # NoErr THEN Fail(n.s, n.err)
       ELSE IF n.b = QUOTE THEN Ok(n.s, Append(buf, QUOTE))
       ELSE IF n.b = BACKSLASH
       THEN With(next(n.s), LAMBDA e :
               IF e.err # NoErr THEN Fail(e.s, e.err)
               ELSE IF e.b = BACKSLASH /\ peek(e.s).err = NoErr /\ peek(e.s).b = QUOTE
               THEN parseStringLoop(next(e.s).s, buf \o <<BACKSLASH, BACKSLASH, QUOTE>>)
               ELSE IF e.b \in {QUOTE, BACKSLASH, Chb, Chf, Chn, Chr, Cht}
               THEN parseStringLoop(e.s, buf \o <<BACKSLASH, e.b>>)
               ELSE Fail(e.s, newEscapeError("invalid escape sequence")))
       ELSE parseStringLoop(n.s, Append(buf, n.b)))

parseStringLoop(s, buf) ==
    With(next(s), LAMBDA n :
       IF n.err # NoErr THEN Fail(n.s, n.err)
       ELSE IF n.b = QUOTE THEN Ok(n.s, Append(buf, QUOTE))
       ELSE IF n.b = BACKSLASH
       THEN With(next(n.s), LAMBDA e :
               IF e.err # NoErr THEN Fail(e.s, e.err)
               ELSE IF e.b \in {QUOTE, BACKSLASH, Chb, Chf, Chn, Chr, Cht}
               THEN parseStringLoop(e.s, buf \o <<BACKSLASH, e.b>>)
               ELSE IF e.b = SLASH
               THEN parseStringLoop(e.s, Append(buf, SLASH))
               ELSE IF e.b = Chu
               THEN With(parseStringHex(e.s, buf \o <<BACKSLASH, Chu>>, 4), LAMBDA h :
                       IF h.err # NoErr THEN h ELSE parseStringLoop(h.s, h.buf))
               ELSE Fail(e.s, newEscapeError("invalid escape sequence")))
       ELSE IF n.b >= 128
       THEN IF utf8SeqLen(n.b) = 0
            THEN Fail(n.s, newUnicodeError("invalid UTF-8 start byte"))
            ELSE With(parseStringUTF8(n.s, Append(buf, n.b), utf8SeqLen(n.b) - 1), LAMBDA u :
                    IF u.err # NoErr THEN u ELSE parseStringLoop(u.s, u.buf))
       ELSE IF n.b < 32 THEN parseStringLoop(n.s, buf \o controlEscape(n.b))
       ELSE parseStringLoop(n.s, Append(buf, n.b)))

parseString(s, buf) ==
    With(next(s), LAMBDA n :
       IF n.err # NoErr THEN Fail(n.s, n.err)
       ELSE IF n.b # QUOTE THEN Fail(n.s, newSyntaxError("expected '\"'"))
       ELSE parseStringLoop(n.s, Append(buf, QUOTE)))

\* Match the bytes of a literal one by one.
RECURSIVE parseLiteral(_, _, _, _)
parseLiteral(s, buf, expected, msg) ==
    IF expected = <<>> THEN Ok(s, buf)
    ELSE With(next(s), LAMBDA n :
            IF n.err # NoErr THEN Fail(n.s, n.err)
            ELSE IF n.b # Head(expected) THEN Fail(n.s, newSyntaxError(msg))
            ELSE parseLiteral(n.s, Append(buf, n.b), Tail(expected), msg))

LitTrue == <<Cht, Chr, Chu, Che>>
LitFalse == <<Chf, Cha, Chl, Chs, Che>>
LitNull == <<Chn, Chu, Chl, Chl>>

parseBoolean(s, buf) ==
    With(peek(s), LAMBDA p :
       IF p.err # NoErr THEN Fail(p.s, p.err)
       ELSE IF p.b = Cht THEN parseLiteral(p.s, buf, LitTrue, "invalid boolean value")
       ELSE IF p.b = Chf THEN parseLiteral(p.s, buf, LitFalse, "invalid boolean value")
       ELSE Fail(p.s, newSyntaxError("expected boolean value")))

parseNull(s, buf) == parseLiteral(s, buf, LitNull, "invalid null value")

isNumberByte(b) ==
    (b >= Ch0 /\ b <= Ch9) \/ b = MINUS \/ b = PLUS \/ b = DOT \/ b = Che \/ b = ChE

RECURSIVE parseNumber(_, _)
parseNumber(s, buf) ==
    With(peek(s), LAMBDA p :
       IF p.err = ioEOF THEN Ok(p.s, buf)
       ELSE IF p.err # NoErr THEN Fail(p.s, p.err)
       ELSE IF isNumberByte(p.b)
       THEN With(next(p.s), LAMBDA n :
               IF n.err # NoErr THEN Fail(n.s, n.err)
               ELSE parseNumber(n.s, Append(buf, n.b)))
       ELSE Ok(p.s, buf))

RECURSIVE parseObject(_, _, _, _)
RECURSIVE parseArray(_, _, _, _)
RECURSIVE parseObjectLoop(_, _, _, _, _)
RECURSIVE parseArrayLoop(_, _, _, _, _)

\* depth is p.depth at the time of the call.
parseElement(s, buf, depth, o) ==
    With(skipWhitespace(s), LAMBDA w :
       IF w.err # NoErr THEN Fail(w.s, w.err)
       ELSE With(peek(w.s), LAMBDA p :
               IF p.err # NoErr THEN Fail(p.s, p.err)
               ELSE IF p.b = LBRACE
               THEN With(parseObject(p.s, <<>>, depth, o), LAMBDA r :
                       IF r.err # NoErr THEN r ELSE Ok(r.s, buf \o r.buf))
               ELSE IF p.b = LBRACKET
               THEN With(parseArray(p.s, <<>>, depth, o), LAMBDA r :
                       IF r.err # NoErr THEN r ELSE Ok(r.s, buf \o r.buf))
               ELSE IF p.b = QUOTE THEN parseString(p.s, buf)
               ELSE IF p.b = Cht \/ p.b = Chf THEN parseBoolean(p.s, buf)
               ELSE IF p.b = Chn THEN parseNull(p.s, buf)
               ELSE IF (p.b >= Ch0 /\ p.b <= Ch9) \/ p.b = MINUS
               THEN parseNumber(p.s, buf)
               ELSE Fail(p.s, newSyntaxError("unexpected character"))))

\* parseKeyValuePair up to its call of parseElement: the key, the colon and
\* the white space around them.
parseKeyColon(s, buf) ==
    With(skipWhitespace(s), LAMBDA w1 :
       IF w1.err # NoErr THEN Fail(w1.s, w1.err)
       ELSE With(parseString(w1.s, buf), LAMBDA k :
               IF k.err # NoErr THEN k
               ELSE With(skipWhitespace(k.s), LAMBDA w2 :
                       IF w2.err # NoErr THEN Fail(w2.s, w2.err)
                       ELSE With(next(w2.s), LAMBDA c :
                               IF c.err # NoErr THEN Fail(c.s, c.err)
                               ELSE IF c.b # COLON
                               THEN Fail(c.s, newSyntaxError("expected ':'"))
                               ELSE With(skipWhitespace(c.s), LAMBDA w3 :
                                       IF w3.err # NoErr THEN Fail(w3.s, w3.err)
                                       ELSE Ok(w3.s, Append(k.buf, COLON)))))))

parseKeyValuePair(s, buf, depth, o) ==
    With(parseKeyColon(s, buf), LAMBDA k :
       IF k.err # NoErr THEN k ELSE parseElement(k.s, k.buf, depth, o))

\* The for-loop of parseObject; first is the loop's flag.
parseObjectLoop(s, buf, depth, o, first) ==
    IF first
    THEN With(parseKeyValuePair(s, buf, depth, o), LAMBDA kv :
            IF kv.err # NoErr THEN kv
            ELSE parseObjectLoop(kv.s, kv.buf, depth, o, FALSE))
    ELSE With(skipWhitespace(s), LAMBDA w :
            IF w.err # NoErr THEN Fail(w.s, w.err)
            ELSE With(next(w.s), LAMBDA n :
                    IF n.err # NoErr THEN Fail(n.s, n.err)
                    ELSE IF n.b = RBRACE THEN Ok(n.s, Append(buf, RBRACE))
                    ELSE IF n.b = COMMA
                    THEN With(parseKeyValuePair(n.s, Append(buf, COMMA), depth, o), LAMBDA kv :
                            IF kv.err # NoErr THEN kv
                            ELSE parseObjectLoop(kv.s, kv.buf, depth, o, FALSE))
                    ELSE Fail(n.s, newSyntaxError("expected ',' or '}'"))))

parseObject(s, buf, depth, o) ==
    With(depth + 1, LAMBDA d :
       IF checkDepth(d, o) # NoErr THEN Fail(s, checkDepth(d, o))
       ELSE With(next(s), LAMBDA n :
               IF n.err # NoErr THEN Fail(n.s, n.err)
               ELSE IF n.b # LBRACE THEN Fail(n.s, newSyntaxError("expected '{'"))
               ELSE With(skipWhitespace(n.s), LAMBDA w :
                       IF w.err # NoErr THEN Fail(w.s, w.err)
                       ELSE With(peek(w.s), LAMBDA p :
                               IF p.err # NoErr THEN Fail(p.s, p.err)
                               ELSE IF p.b = RBRACE
                               THEN Ok(next(p.s).s, buf \o <<LBRACE, RBRACE>>)
                               ELSE parseObjectLoop(p.s, Append(buf, LBRACE), d, o, TRUE)))))

\* The for-loop of parseArray made to drop a comma that is followed by the
\* closing bracket.
parseArrayLoopDropComma(s, buf, depth, o, first) ==
    IF first
    THEN With(parseElement(s, buf, depth, o), LAMBDA el :
            IF el.err # NoErr THEN el
            ELSE parseArrayLoop(el.s, el.buf, depth, o, FALSE))
    ELSE With(skipWhitespace(s), LAMBDA w :
            IF w.err # NoErr THEN Fail(w.s, w.err)
            ELSE With(next(w.s), LAMBDA n :
                    IF n.err # NoErr THEN Fail(n.s, n.err)
                    ELSE IF n.b = RBRACKET THEN Ok(n.s, Append(buf, RBRACKET))
                    ELSE IF n.b = COMMA /\ peek(n.s).err = NoErr /\ peek(n.s).b = RBRACKET
                    THEN Ok(next(n.s).s, Append(buf, RBRACKET))
                    ELSE IF n.b = COMMA
                    THEN With(parseElement(n.s, Append(buf, COMMA), depth, o), LAMBDA el :
                            IF el.err # NoErr THEN el
                            ELSE parseArrayLoop(el.s, el.buf, depth, o, FALSE))
                    ELSE Fail(n.s, newSyntaxError("expected ',' or ']'"))))

\* The for-loop of parseArray; first is the loop's flag.
parseArrayLoop(s, buf, depth, o, first) ==
    IF first
    THEN With(parseElement(s, buf, depth, o), LAMBDA el :
            IF el.err # NoErr THEN el
            ELSE parseArrayLoop(el.s, el.buf, depth, o, FALSE))
    ELSE With(skipWhitespace(s), LAMBDA w :
            IF w.err # NoErr THEN Fail(w.s, w.err)
            ELSE With(next(w.s), LAMBDA n :
                    IF n.err # NoErr THEN Fail(n.s, n.err)
                    ELSE IF n.b = RBRACKET THEN Ok(n.s, Append(buf, RBRACKET))
                    ELSE IF n.b = COMMA
                    THEN With(parseElement(n.s, Append(buf, COMMA), depth, o), LAMBDA el :
                            IF el.err # NoErr THEN el
                            ELSE parseArrayLoop(el.s, el.buf, depth, o, FALSE))
                    ELSE Fail(n.s, newSyntaxError("expected ',' or ']'"))))

parseArray(s, buf, depth, o) ==
    With(depth + 1, LAMBDA d :
       IF checkDepth(d, o) # NoErr THEN Fail(s, checkDepth(d, o))
       ELSE With(next(s), LAMBDA n :
               IF n.err # NoErr THEN Fail(n.s, n.err)
               ELSE IF n.b # LBRACKET THEN Fail(n.s, newSyntaxError("expected '['"))
               ELSE With(skipWhitespace(n.s), LAMBDA w :
                       IF w.err # NoErr THEN Fail(w.s, w.err)
                       ELSE With(peek(w.s), LAMBDA p :
                               IF p.err # NoErr THEN Fail(p.s, p.err)
                               ELSE IF p.b = RBRACKET
                               THEN Ok(next(p.s).s, buf \o <<LBRACKET, RBRACKET>>)
                               ELSE parseArrayLoop(p.s, Append(buf, LBRACKET), d, o, TRUE)))))

parseValue(s, startByte, buf, o) ==
    IF startByte = LBRACE THEN parseObject(s, buf, 0, o)
    ELSE IF startByte = LBRACKET THEN parseArray(s, buf, 0, o)
    ELSE Fail(s, newSyntaxError("expected '{' or '['"))

\* parseNext that, when the value it found fails to parse, goes on to the
\* next '{' or '[' of the stream.
RECURSIVE parseNextSkipping(_, _)
parseNextSkipping(s, o) ==
    With(findJSONStart(s), LAMBDA f :
       IF f.err # NoErr THEN Fail(f.s, f.err)
       ELSE With(parseValue(f.s, f.b, <<>>, o), LAMBDA r :
               IF r.err = NoErr \/ r.err = ioEOF THEN r
               ELSE IF r.s.offset > f.s.offset THEN parseNextSkipping(r.s, o)
               ELSE parseNextSkipping(next(f.s).s, o)))

\* parseNext resets p.depth to 0 and parses from the first '{' or '['.
parseNext(s, o) ==
    With(findJSONStart(s), LAMBDA f :
       IF f.err # NoErr THEN Fail(f.s, f.err)
       ELSE parseValue(f.s, f.b, <<>>, o))

tryParseFromPosition(data, o) ==
    IF Len(data) = 0
    THEN [json |-> <<>>, length |-> 0, err |-> newEOFError("empty data")]
    ELSE With(parseNext(newScanner(newReader(data, "bytes"), o.bufferSize), o), LAMBDA r :
            IF r.err # NoErr THEN [json |-> <<>>, length |-> 0, err |-> r.err]
            ELSE [json |-> r.buf, length |-> Len(r.buf), err |-> NoErr])

isDepthError(err) ==
    err.t = "ErrSyntax" /\ err.m = "maximum nesting depth exceeded"

hasCustomOptions(o) ==
    o.maxDepth # DefaultMaxDepth \/ o.bufferSize # DefaultBufferSize

\* parseLongestFrom with "length >= bestLength": a later candidate of equal
\* length replaces the earlier one.
RECURSIVE parseLongestFromLatest(_, _, _, _, _)
parseLongestFromLatest(data, o, i, best, found) ==
    IF i >= Len(data)
    THEN IF found THEN [json |-> best, err |-> NoErr]
         ELSE [json |-> <<>>, err |-> newInvalidJSONError("no valid JSON found")]
    ELSE IF data[i + 1] = LBRACE \/ data[i + 1] = LBRACKET
    THEN With(tryParseFromPosition(SubSeq(data, i + 1, Len(data)), o), LAMBDA r :
            IF r.err = NoErr /\ r.length >= Len(best)
            THEN parseLongestFromLatest(data, o, i + 1, r.json, TRUE)
            ELSE IF r.err # NoErr /\ hasCustomOptions(o) /\ isDepthError(r.err)
            THEN [json |-> <<>>, err |-> r.err]
            ELSE parseLongestFromLatest(data, o, i + 1, best, found))
    ELSE parseLongestFromLatest(data, o, i + 1, best, found)

\* The body of parseLongest's loop with the depth check of the else-branch
\* made for every configuration.
candidateStepAlwaysAbort(r, custom, best, found) ==
    IF r.err = NoErr /\ r.length > Len(best)
    THEN [abort |-> FALSE, err |-> NoErr, best |-> r.json, found |-> TRUE]
    ELSE IF r.err # NoErr /\ isDepthError(r.err)
    THEN [abort |-> TRUE, err |-> r.err, best |-> best, found |-> found]
    ELSE [abort |-> FALSE, err |-> NoErr, best |-> best, found |-> found]

\* The body of parseLongest's loop without the else-branch: every failing
\* candidate is skipped.
candidateStepSwallow(r, custom, best, found) ==
    IF r.err = NoErr /\ r.length > Len(best)
    THEN [abort |-> FALSE, err |-> NoErr, best |-> r.json, found |-> TRUE]
    ELSE [abort |-> FALSE, err |-> NoErr, best |-> best, found |-> found]

\* The body of parseLongest's loop for the outcome r of
\* tryParseFromPosition on one candidate: custom is hasCustomOptions, best
\* is longestJSON (bestLength is its length), found is longestJSON != nil.
\* abort says that parseLongest returns err at once.
candidateStep(r, custom, best, found) ==
    IF r.err = NoErr /\ r.length > Len(best)
    THEN [abort |-> FALSE, err |-> NoErr, best |-> r.json, found |-> TRUE]
    ELSE IF r.err # NoErr /\ custom /\ isDepthError(r.err)
    THEN [abort |-> TRUE, err |-> r.err, best |-> best, found |-> found]
    ELSE [abort |-> FALSE, err |-> NoErr, best |-> best, found |-> found]

\* What parseLongest returns after its loop.
longestResult(best, found) ==
    IF found THEN [json |-> best, err |-> NoErr]
    ELSE [json |-> <<>>, err |-> newInvalidJSONError("no valid JSON found")]

\* The scan of parseLongest from 0-based offset i with the best candidate
\* so far.
RECURSIVE parseLongestFrom(_, _, _, _, _)
parseLongestFrom(data, o, i, best, found) ==
    IF i >= Len(data) THEN longestResult(best, found)
    ELSE IF data[i + 1] = LBRACE \/ data[i + 1] = LBRACKET
    THEN With(candidateStep(tryParseFromPosition(SubSeq(data, i + 1, Len(data)), o),
                            hasCustomOptions(o), best, found), LAMBDA c :
            IF c.abort THEN [json |-> <<>>, err |-> c.err]
            ELSE parseLongestFrom(data, o, i + 1, c.best, c.found))
    ELSE parseLongestFrom(data, o, i + 1, best, found)

parseLongest(data, o) == parseLongestFrom(data, o, 0, <<>>, FALSE)


\* ------------------------------------------------------------------------
\* UTF-8 and UTF-16 helpers
\* ------------------------------------------------------------------------
RuneError == 65533
ReplacementBytes == <<239, 191, 189>>

isHighSurrogate(r) == r >= 55296 /\ r <= 56319
isLowSurrogate(r) == r >= 56320 /\ r <= 57343
isSurrogate(r) == r >= 55296 /\ r <= 57343

\* utf8.AppendRune / strings.Builder.WriteRune: invalid runes are written as
\* U+FFFD.
utf8AppendRune(r) ==
    IF r < 0 \/ r > 1114111 \/ isSurrogate(r) THEN ReplacementBytes
    ELSE IF r < 128 THEN <<r>>
    ELSE IF r < 2048 THEN <<192 + (r \div 64), 128 + (r % 64)>>
    ELSE IF r < 65536
    THEN <<224 + (r \div 4096), 128 + ((r \div 64) % 64), 128 + (r % 64)>>
    ELSE <<240 + (r \div 262144), 128 + ((r \div 4096) % 64),
           128 + ((r \div 64) % 64), 128 + (r % 64)>>

isCont(b) == b >= 128 /\ b <= 191

\* utf8.DecodeRune at 1-based index i: number of bytes of the valid
\* sequence starting there, 0 when the bytes are not valid UTF-8.
utf8ValidLen(d, i) ==
    With(d[i], LAMBDA b0 :
       IF b0 < 128 THEN 1
       ELSE IF b0 >= 194 /\ b0 <= 223
       THEN IF i + 1 <= Len(d) /\ isCont(d[i + 1]) THEN 2 ELSE 0
       ELSE IF b0 >= 224 /\ b0 <= 239
       THEN IF i + 2 <= Len(d)
               /\ d[i + 1] >= (IF b0 = 224 THEN 160 ELSE 128)
               /\ d[i + 1] <= (IF b0 = 237 THEN 159 ELSE 191)
               /\ isCont(d[i + 2])
            THEN 3 ELSE 0
       ELSE IF b0 >= 240 /\ b0 <= 244
       THEN IF i + 3 <= Len(d)
               /\ d[i + 1] >= (IF b0 = 240 THEN 144 ELSE 128)
               /\ d[i + 1] <= (IF b0 = 244 THEN 143 ELSE 191)
               /\ isCont(d[i + 2]) /\ isCont(d[i + 3])
            THEN 4 ELSE 0
       ELSE 0)

hexVal(b) ==
    IF b >= Ch0 /\ b <= Ch9 THEN b - Ch0
    ELSE IF b >= ChA /\ b <= ChF THEN b - ChA + 10
    ELSE b - Cha + 10

\* strconv.ParseUint(d[i..i+3], 16, 16): -1 when it reports an error.
parseHex4(d, i) ==
    IF i + 3 <= Len(d) /\ \A j \in i..(i + 3) : isHexDigit(d[j])
    THEN 4096 * hexVal(d[i]) + 256 * hexVal(d[i + 1])
         + 16 * hexVal(d[i + 2]) + hexVal(d[i + 3])
    ELSE -1

\* decodeSurrogatePair with the offset 0x10000 left out.
decodeSurrogatePairNoOffset(high, low) ==
    IF ~isHighSurrogate(high) \/ ~isLowSurrogate(low) THEN RuneError
    ELSE (high - 55296) * 1024 + (low - 56320)

decodeSurrogatePair(high, low) ==
    IF ~isHighSurrogate(high) \/ ~isLowSurrogate(low) THEN RuneError
    ELSE 65536 + (high - 55296) * 1024 + (low - 56320)

isValidUnicodeCodePoint(r) == ~(r < 0 \/ r > 1114111) /\ ~isSurrogate(r)

encodeUTF8Rune(r) ==
    IF ~isValidUnicodeCodePoint(r) THEN ReplacementBytes ELSE utf8AppendRune(r)

hasEscapeSequences(data) == \E j \in 1..Len(data) : data[j] = BACKSLASH

EscOk(out) == [out |-> out, err |-> NoErr]
EscFail(msg) == [out |-> <<>>, err |-> newEscapeError(msg)]

\* A \u escape at the 1-based index j (the code's pos + 1) of data.
processUnicodeEscape(data, j) ==
    IF j + 5 > Len(data) THEN [n |-> 0, out |-> <<>>, err |-> newEscapeError("incomplete unicode escape sequence")]
    ELSE With(parseHex4(data, j + 2), LAMBDA r :
       IF r < 0 THEN [n |-> 0, out |-> <<>>, err |-> newEscapeError("invalid unicode escape sequence")]
       ELSE IF isHighSurrogate(r)
       THEN IF j + 11 > Len(data) THEN [n |-> 0, out |-> <<>>, err |-> newEscapeError("incomplete surrogate pair")]
            ELSE IF data[j + 6] # BACKSLASH \/ data[j + 7] # Chu
            THEN [n |-> 0, out |-> <<>>, err |-> newEscapeError("incomplete surrogate pair")]
            ELSE With(parseHex4(data, j + 8), LAMBDA lowR :
                    IF lowR < 0 THEN [n |-> 0, out |-> <<>>, err |-> newEscapeError("invalid low surrogate")]
                    ELSE IF ~isLowSurrogate(lowR)
                    THEN [n |-> 0, out |-> <<>>, err |-> newEscapeError("invalid surrogate pair")]
                    ELSE [n |-> 12, out |-> encodeUTF8Rune(decodeSurrogatePair(r, lowR)),
                          err |-> NoErr])
       ELSE IF isLowSurrogate(r)
       THEN [n |-> 0, out |-> <<>>, err |-> newEscapeError("unexpected low surrogate")]
       ELSE [n |-> 6, out |-> encodeUTF8Rune(r), err |-> NoErr])

\* The loop of processEscape over the 1-based index j.
RECURSIVE processEscapeFrom(_, _, _)
processEscapeFrom(data, j, result) ==
    IF j > Len(data) THEN EscOk(result)
    ELSE IF data[j] # BACKSLASH THEN processEscapeFrom(data, j + 1, Append(result, data[j]))
    ELSE IF j + 1 > Len(data) THEN EscFail("incomplete escape sequence")
    ELSE With(data[j + 1], LAMBDA c :
       IF c = QUOTE \/ c = BACKSLASH \/ c = SLASH
       THEN processEscapeFrom(data, j + 2, Append(result, c))
       ELSE IF c = Chb THEN processEscapeFrom(data, j + 2, Append(result, BS))
       ELSE IF c = Chf THEN processEscapeFrom(data, j + 2, Append(result, FF))
       ELSE IF c = Chn THEN processEscapeFrom(data, j + 2, Append(result, LF))
       ELSE IF c = Chr THEN processEscapeFrom(data, j + 2, Append(result, CR))
       ELSE IF c = Cht THEN processEscapeFrom(data, j + 2, Append(result, TAB))
       ELSE IF c = Chu
       THEN With(processUnicodeEscape(data, j), LAMBDA u :
               IF u.err # NoErr THEN [out |-> <<>>, err |-> u.err]
               ELSE processEscapeFrom(data, j + u.n, result \o u.out))
       ELSE EscFail("invalid escape character"))

processEscape(data) ==
    IF Len(data) = 0 THEN EscOk(data)
    ELSE IF ~hasEscapeSequences(data) THEN EscOk(data)
    ELSE processEscapeFrom(data, 1, <<>>)

\* strings.ToUpper(strconv.FormatUint(b, 16)) for a byte below 0x20.
formatHexUpper(b) ==
    IF b < 16 THEN <<hexUpper(b)>> ELSE <<hexUpper(b \div 16), hexUpper(b % 16)>>

encodeEscapeByte(b) ==
    IF b = QUOTE THEN <<BACKSLASH, QUOTE>>
    ELSE IF b = BACKSLASH THEN <<BACKSLASH, BACKSLASH>>
    ELSE IF b = BS THEN <<BACKSLASH, Chb>>
    ELSE IF b = FF THEN <<BACKSLASH, Chf>>
    ELSE IF b = LF THEN <<BACKSLASH, Chn>>
    ELSE IF b = CR THEN <<BACKSLASH, Chr>>
    ELSE IF b = TAB THEN <<BACKSLASH, Cht>>
    ELSE IF b < 32 THEN <<BACKSLASH, Chu>> \o formatHexUpper(b)
    ELSE <<b>>

RECURSIVE encodeEscape(_)
encodeEscape(data) ==
    IF data = <<>> THEN <<>>
    ELSE encodeEscapeByte(Head(data)) \o encodeEscape(Tail(data))

\* ------------------------------------------------------------------------
\* The generic value model produced by the standard deserializer.
\*   t: "nil" | "null" | "bool" | "num" | "str" | "arr" | "obj"
\*   s: the bytes of a string, the text of a number or literal
\*   k: the keys of an object, e: the members / elements
\* ------------------------------------------------------------------------
NilValue == [t |-> "nil", s |-> <<>>, k |-> <<>>, e |-> <<>>]
ScalarValue(t, s) == [t |-> t, s |-> s, k |-> <<>>, e |-> <<>>]
ArrayValue(e) == [t |-> "arr", s |-> <<>>, k |-> <<>>, e |-> e]
ObjectValue(k, e) == [t |-> "obj", s |-> <<>>, k |-> k, e |-> e]

\* map assignment m[key] = v: a repeated key replaces the earlier value.
mapSet(k, e, key, v) ==
    IF \E j \in 1..Len(k) : k[j] = key
    THEN With(CHOOSE j \in 1..Len(k) : k[j] = key, LAMBDA j :
            [k |-> k, e |-> [e EXCEPT ![j] = v]])
    ELSE [k |-> Append(k, key), e |-> Append(e, v)]

\* Decoding an object into a non-nil map keeps the entries already there.
RECURSIVE mapMerge(_, _, _)
mapMerge(into, from, j) ==
    IF j > Len(from.k) THEN into
    ELSE With(mapSet(into.k, into.e, from.k[j], from.e[j]), LAMBDA m :
            mapMerge(ObjectValue(m.k, m.e), from, j + 1))

\* ------------------------------------------------------------------------
\* The standard deserializer (encoding/json Unmarshal): an RFC 8259
\* validator and decoder over the 1-based index i of the text d.
\* ------------------------------------------------------------------------
StdFail == [ok |-> FALSE, i |-> 0, v |-> NilValue]
StdOk(i, v) == [ok |-> TRUE, i |-> i, v |-> v]

RECURSIVE stdSkipWs(_, _)
stdSkipWs(d, i) ==
    IF i <= Len(d) /\ isWhitespace(d[i]) THEN stdSkipWs(d, i + 1) ELSE i

\* The characters of a string after the opening quote; acc is the decoded
\* text so far.
RECURSIVE stdStringLoop(_, _, _)
stdStringLoop(d, i, acc) ==
    IF i > Len(d) THEN StdFail
    ELSE IF d[i] = QUOTE THEN StdOk(i + 1, ScalarValue("str", acc))
    ELSE IF d[i] < 32 THEN StdFail
    ELSE IF d[i] = BACKSLASH
    THEN IF i + 1 > Len(d) THEN StdFail
         ELSE With(d[i + 1], LAMBDA c :
                 IF c = QUOTE \/ c = BACKSLASH \/ c = SLASH
                 THEN stdStringLoop(d, i + 2, Append(acc, c))
                 ELSE IF c = Chb THEN stdStringLoop(d, i + 2, Append(acc, BS))
                 ELSE IF c = Chf THEN stdStringLoop(d, i + 2, Append(acc, FF))
                 ELSE IF c = Chn THEN stdStringLoop(d, i + 2, Append(acc, LF))
                 ELSE IF c = Chr THEN stdStringLoop(d, i + 2, Append(acc, CR))
                 ELSE IF c = Cht THEN stdStringLoop(d, i + 2, Append(acc, TAB))
                 ELSE IF c = Chu
                 THEN With(parseHex4(d, i + 2), LAMBDA r :
                          With(IF i + 7 <= Len(d) /\ d[i + 6] = BACKSLASH
                                   /\ d[i + 7] = Chu
                                THEN parseHex4(d, i + 8) ELSE -1, LAMBDA lo :
                         IF r < 0 THEN StdFail
                         ELSE IF isHighSurrogate(r) /\ lo >= 0 /\ isLowSurrogate(lo)
                         THEN stdStringLoop(d, i + 12,
                                  acc \o utf8AppendRune(65536 + (r - 55296) * 1024
                                                        + (lo - 56320)))
                         ELSE stdStringLoop(d, i + 6, acc \o utf8AppendRune(r))))
                 ELSE StdFail)
    ELSE IF d[i] < 128 THEN stdStringLoop(d, i + 1, Append(acc, d[i]))
    ELSE With(utf8ValidLen(d, i), LAMBDA n :
            IF n = 0 THEN stdStringLoop(d, i + 1, acc \o ReplacementBytes)
            ELSE stdStringLoop(d, i + n, acc \o SubSeq(d, i, i + n - 1)))

stdString(d, i) ==
    IF i <= Len(d) /\ d[i] = QUOTE THEN stdStringLoop(d, i + 1, <<>>) ELSE StdFail

isDigit(b) == b >= Ch0 /\ b <= Ch9

RECURSIVE stdDigits(_, _)
stdDigits(d, i) == IF i <= Len(d) /\ isDigit(d[i]) THEN stdDigits(d, i + 1) ELSE i

\* number = [ "-" ] int [ frac ] [ exp ]; the index after it, 0 if none.
stdNumberEnd(d, i) ==
    With(IF i <= Len(d) /\ d[i] = MINUS THEN i + 1 ELSE i, LAMBDA a :
        With(IF a > Len(d) \/ ~isDigit(d[a]) THEN 0
             ELSE IF d[a] = Ch0 THEN a + 1 ELSE stdDigits(d, a), LAMBDA b :
        With(IF b = 0 THEN 0
             ELSE IF b <= Len(d) /\ d[b] = DOT
             THEN IF stdDigits(d, b + 1) = b + 1 THEN 0 ELSE stdDigits(d, b + 1)
             ELSE b, LAMBDA c :
        With(IF c # 0 /\ c <= Len(d) /\ (d[c] = Che \/ d[c] = ChE)
             THEN IF c + 1 <= Len(d) /\ (d[c + 1] = PLUS \/ d[c + 1] = MINUS)
                  THEN c + 2 ELSE c + 1
             ELSE 0, LAMBDA x :
       IF c = 0 THEN 0
       ELSE IF x = 0 THEN c
       ELSE IF stdDigits(d, x) = x THEN 0 ELSE stdDigits(d, x)))))

hasPrefixAt(d, i, lit) ==
    i + Len(lit) - 1 <= Len(d) /\ SubSeq(d, i, i + Len(lit) - 1) = lit

RECURSIVE stdValue(_, _)
RECURSIVE stdArrayLoop(_, _, _)
RECURSIVE stdObjectLoop(_, _, _, _)

\* After an element: ',' element ... ']'
stdArrayLoop(d, i, e) ==
    With(stdSkipWs(d, i), LAMBDA j :
       IF j > Len(d) THEN StdFail
       ELSE IF d[j] = RBRACKET THEN StdOk(j + 1, ArrayValue(e))
       ELSE IF d[j] = COMMA
       THEN With(stdValue(d, stdSkipWs(d, j + 1)), LAMBDA v :
               IF ~v.ok THEN StdFail ELSE stdArrayLoop(d, v.i, Append(e, v.v)))
       ELSE StdFail)

\* A member at i: string ':' value, then ',' member ... '}'
stdObjectLoop(d, i, k, e) ==
    With(stdString(d, stdSkipWs(d, i)), LAMBDA key :
        With(stdSkipWs(d, key.i), LAMBDA c :
       IF ~key.ok \/ c > Len(d) \/ d[c] # COLON THEN StdFail
       ELSE With(stdValue(d, stdSkipWs(d, c + 1)), LAMBDA v :
                With(mapSet(k, e, key.v.s, v.v), LAMBDA m :
                With(stdSkipWs(d, v.i), LAMBDA j :
               IF ~v.ok \/ j > Len(d) THEN StdFail
               ELSE IF d[j] = RBRACE THEN StdOk(j + 1, ObjectValue(m.k, m.e))
               ELSE IF d[j] = COMMA THEN stdObjectLoop(d, j + 1, m.k, m.e)
               ELSE StdFail)))))

stdValue(d, i) ==
    IF i > Len(d) THEN StdFail
    ELSE IF d[i] = LBRACE
    THEN With(stdSkipWs(d, i + 1), LAMBDA j :
            IF j <= Len(d) /\ d[j] = RBRACE
            THEN StdOk(j + 1, ObjectValue(<<>>, <<>>))
            ELSE stdObjectLoop(d, j, <<>>, <<>>))
    ELSE IF d[i] = LBRACKET
    THEN With(stdSkipWs(d, i + 1), LAMBDA j :
            IF j <= Len(d) /\ d[j] = RBRACKET
            THEN StdOk(j + 1, ArrayValue(<<>>))
            ELSE With(stdValue(d, j), LAMBDA v :
                    IF ~v.ok THEN StdFail ELSE stdArrayLoop(d, v.i, <<v.v>>)))
    ELSE IF d[i] = QUOTE THEN stdString(d, i)
    ELSE IF hasPrefixAt(d, i, LitTrue) THEN StdOk(i + 4, ScalarValue("bool", LitTrue))
    ELSE IF hasPrefixAt(d, i, LitFalse) THEN StdOk(i + 5, ScalarValue("bool", LitFalse))
    ELSE IF hasPrefixAt(d, i, LitNull) THEN StdOk(i + 4, ScalarValue("null", LitNull))
    ELSE With(stdNumberEnd(d, i), LAMBDA n :
            IF n = 0 THEN StdFail
            ELSE StdOk(n, ScalarValue("num", SubSeq(d, i, n - 1))))

\* One complete JSON text: ws value ws, nothing else.
stdParse(d) ==
    With(stdValue(d, stdSkipWs(d, 1)), LAMBDA v :
       IF v.ok /\ stdSkipWs(d, v.i) > Len(d) THEN v ELSE StdFail)

\* A JSON number that strconv.ParseInt accepts: digits after an optional
\* minus sign.
isIntegerText(s) ==
    /\ Len(s) > 0
    /\ \A j \in 1..Len(s) : isDigit(s[j]) \/ (j = 1 /\ s[j] = MINUS /\ Len(s) > 1)

\* The element of an []int that the JSON value v is decoded into: a value
\* that is no integer leaves the zero value and is reported as an
\* UnmarshalTypeError once the whole array has been decoded.
intElemOk(v) == (v.t = "num" /\ isIntegerText(v.s)) \/ v.t = "null"

intElem(v) == IF v.t = "num" /\ isIntegerText(v.s) THEN v ELSE ScalarValue("num", <<Ch0>>)

\* json.Unmarshal(d, dest): dest is a pointer to a variable of kind
\* "interface" (interface{}), "map" (map[string]interface{}), "slice"
\* ([]interface{}) or "ints" ([]int).  A syntax error is reported before
\* anything is stored; a JSON value of the wrong type for the destination
\* is skipped, the rest is stored, and the error is returned at the end.
jsonUnmarshal(d, dest) ==
    With(stdParse(d), LAMBDA p :
       IF ~p.ok THEN [err |-> jsonSyntaxError, dest |-> dest]
       ELSE IF p.v.t = "null" THEN [err |-> NoErr, dest |-> dest]
       ELSE IF dest.kind = "interface"
               \/ (dest.kind = "map" /\ p.v.t = "obj")
               \/ (dest.kind = "slice" /\ p.v.t = "arr")
       THEN [err |-> NoErr,
             dest |-> [dest EXCEPT !.v = IF dest.kind = "map" /\ dest.v.t = "obj"
                                         THEN mapMerge(dest.v, p.v, 1)
                                         ELSE p.v]]
       ELSE IF dest.kind = "ints" /\ p.v.t = "arr"
       THEN [err |-> IF \A j \in 1..Len(p.v.e) : intElemOk(p.v.e[j])
                     THEN NoErr ELSE jsonUnmarshalTypeError,
             dest |-> [dest EXCEPT !.v =
                          ArrayValue([j \in 1..Len(p.v.e) |-> intElem(p.v.e[j])])]]
       ELSE [err |-> jsonUnmarshalTypeError, dest |-> dest])

\* ------------------------------------------------------------------------
\* Unmarshal and its post-processing
\* ------------------------------------------------------------------------
\* decodeEscapeSequences over the 1-based index j (the code's i + 1).
RECURSIVE decodeEscapeSequencesFrom(_, _, _)
decodeEscapeSequencesFrom(s, j, acc) ==
    IF j > Len(s) THEN acc
    ELSE IF j < Len(s) /\ s[j] = BACKSLASH
    THEN With(s[j + 1], LAMBDA c :
            IF c = QUOTE \/ c = BACKSLASH \/ c = SLASH
            THEN decodeEscapeSequencesFrom(s, j + 2, Append(acc, c))
            ELSE IF c = Chb THEN decodeEscapeSequencesFrom(s, j + 2, Append(acc, BS))
            ELSE IF c = Chf THEN decodeEscapeSequencesFrom(s, j + 2, Append(acc, FF))
            ELSE IF c = Chn THEN decodeEscapeSequencesFrom(s, j + 2, Append(acc, LF))
            ELSE IF c = Chr THEN decodeEscapeSequencesFrom(s, j + 2, Append(acc, CR))
            ELSE IF c = Cht THEN decodeEscapeSequencesFrom(s, j + 2, Append(acc, TAB))
            ELSE IF c = Chu
            THEN IF j + 5 <= Len(s) /\ parseHex4(s, j + 2) >= 0
                 THEN With(parseHex4(s, j + 2), LAMBDA cp :
                          With(IF j + 11 <= Len(s) /\ s[j + 6] = BACKSLASH
                                   /\ s[j + 7] = Chu
                                THEN parseHex4(s, j + 8) ELSE -1, LAMBDA lo :
                         IF isHighSurrogate(cp) /\ lo >= 0 /\ isLowSurrogate(lo)
                         THEN decodeEscapeSequencesFrom(s, j + 12,
                                  acc \o utf8AppendRune(65536 + (cp % 1024) * 1024
                                                        + (lo % 1024)))
                         ELSE decodeEscapeSequencesFrom(s, j + 6,
                                  acc \o utf8AppendRune(cp))))
                 ELSE decodeEscapeSequencesFrom(s, j + 1, Append(acc, s[j]))
            ELSE decodeEscapeSequencesFrom(s, j + 1, Append(acc, s[j])))
    ELSE decodeEscapeSequencesFrom(s, j + 1, Append(acc, s[j]))

\* decodeEscapeSequences that leaves the string as json.Unmarshal decoded it.
keepEscapeSequences(s) == s

decodeEscapeSequences(s) == decodeEscapeSequencesFrom(s, 1, <<>>)

\* The walk of processEscapeSequences below a map or slice: string members
\* and elements are re-decoded, nested maps and slices are walked, keys and
\* the other leaves are left alone.
RECURSIVE walkEscapeSequences(_)
walkEscapeSequences(v) ==
    IF v.t = "str" THEN [v EXCEPT !.s = decodeEscapeSequences(v.s)]
    ELSE IF v.t = "arr" \/ v.t = "obj"
    THEN [v EXCEPT !.e = [j \in 1..Len(v.e) |-> walkEscapeSequences(v.e[j])]]
    ELSE v

\* processEscapeSequences(v) on the destination pointer: a pointer to an
\* interface{} variable is of neither kind Map nor Slice and is not walked.
processEscapeSequences(dest) ==
    IF (dest.kind = "map" /\ dest.v.t = "obj") \/ (dest.kind = "slice" /\ dest.v.t = "arr")
    THEN [dest EXCEPT !.v = walkEscapeSequences(dest.v)]
    ELSE dest

\* bytes.TrimSpace on the ASCII white space it knows.
isTrimSpace(b) == b \in {TAB, LF, 11, FF, CR, SP}

RECURSIVE trimLeft(_)
trimLeft(d) == IF d # <<>> /\ isTrimSpace(Head(d)) THEN trimLeft(Tail(d)) ELSE d

RECURSIVE trimRight(_)
trimRight(d) ==
    IF d # <<>> /\ isTrimSpace(d[Len(d)]) THEN trimRight(SubSeq(d, 1, Len(d) - 1)) ELSE d

TrimSpace(d) == trimRight(trimLeft(d))

\* The condition under which Unmarshal tries the standard library first.
fastPathTaken(data, o) ==
    /\ o.maxDepth = DefaultMaxDepth /\ o.bufferSize = DefaultBufferSize
    /\ Len(TrimSpace(data)) > 0
    /\ TrimSpace(data)[1] \in {LBRACE, LBRACKET}
    /\ TrimSpace(data) = data

\* The robust path of Unmarshal: parseLongest, json.Unmarshal,
\* processEscapeSequences.
robustPath(data, dest, o) ==
    With(parseLongest(data, o), LAMBDA pl :
       IF pl.err # NoErr
       THEN [err |-> pl.err, dest |-> dest, json |-> <<>>, perr |-> pl.err]
       ELSE With(jsonUnmarshal(pl.json, dest), LAMBDA u :
               IF u.err # NoErr
               THEN [err |-> u.err, dest |-> u.dest, json |-> pl.json, perr |-> NoErr]
               ELSE [err |-> NoErr, dest |-> processEscapeSequences(u.dest),
                     json |-> pl.json, perr |-> NoErr]))

\* Unmarshal(data, v, opts...): path records which return statement ended
\* the call, json and perr what parseLongest returned.
Unmarshal(data, dest, o) ==
    IF Len(data) = 0
    THEN [err |-> newInvalidJSONError("empty input data"), dest |-> dest,
          json |-> <<>>, perr |-> NoErr, path |-> "empty"]
    ELSE With(IF fastPathTaken(data, o)
                     THEN jsonUnmarshal(TrimSpace(data), dest)
                     ELSE [err |-> jsonSyntaxError, dest |-> dest], LAMBDA fast :
            IF fastPathTaken(data, o) /\ fast.err = NoErr
            THEN [err |-> NoErr, dest |-> fast.dest, json |-> <<>>, perr |-> NoErr,
                  path |-> "fast"]
            ELSE With(robustPath(data, fast.dest, o), LAMBDA r :
                    [err |-> r.err, dest |-> r.dest, json |-> r.json,
                     perr |-> r.perr, path |-> "robust"]))

\* ------------------------------------------------------------------------
\* Decoder
\* ------------------------------------------------------------------------
\* New(r, opts...): the decoder's parser owns one scanner over the stream.
New(stream, o) ==
    [open |-> TRUE, options |-> o,
     scanner |-> newScanner(newReader(stream, "strings"), o.bufferSize)]

NoDecoder ==
    [open |-> FALSE, options |-> defaultOptions,
     scanner |-> newScanner(newReader(<<>>, "strings"), DefaultBufferSize)]

\* Decoder.Decode(v): parseNext on the decoder's scanner, then the standard
\* deserializer on the extracted bytes; json and perr are what parseNext
\* returned.
\* Decode that puts the stream back where it was when the parse fails.
DecodeRewindOnError(d, dest) ==
    With(parseNext(d.scanner, d.options), LAMBDA r :
       IF r.err # NoErr
       THEN [dec |-> d, err |-> r.err, dest |-> dest, json |-> <<>>, perr |-> r.err]
       ELSE With(jsonUnmarshal(r.buf, dest), LAMBDA u :
               [dec |-> [d EXCEPT !.scanner = r.s], err |-> u.err, dest |-> u.dest,
                json |-> r.buf, perr |-> NoErr]))

Decode(d, dest) ==
    With(parseNext(d.scanner, d.options), LAMBDA r :
        With([d EXCEPT !.scanner = r.s], LAMBDA d2 :
       IF r.err # NoErr
       THEN [dec |-> d2, err |-> r.err, dest |-> dest, json |-> <<>>, perr |-> r.err]
       ELSE With(jsonUnmarshal(r.buf, dest), LAMBDA u :
               [dec |-> d2, err |-> u.err, dest |-> u.dest, json |-> r.buf,
                perr |-> NoErr])))

\* ------------------------------------------------------------------------
\* Bounds and input families
\* ------------------------------------------------------------------------
MaxLen1 == 4
MaxLen2 == 5
MaxNest == 6
MaxBody == 3
MaxDecodes == 3
MaxCandidates == 3
NumGoroutines == 2
MaxBuffers == 2
SmallBuffer == 2
MaxSurrogateTokens == 2
MaxText == 2
MaxDoubleTokens == 2
MaxStringBody == 5
MaxUtf8Body == 4
MaxScanLen == 3
MaxPiece == 2
MaxReads == 3
MaxScanBuffer == 2
MaxOverlapBody == 2
MaxOverlapTail == 3

SeqsUpTo(S, n) == UNION {[1..k -> S] : k \in 0..n}

RECURSIVE Flatten(_)
Flatten(ss) == IF ss = <<>> THEN <<>> ELSE Head(ss) \o Flatten(Tail(ss))

\* Brackets, separators, a number and white space: structure and noise.
GenBytes1 == {LBRACKET, RBRACKET, LBRACE, RBRACE, COMMA, Ch1, SP}
\* Brackets and a sign: candidates the parser accepts and the standard
\* deserializer does not.
GenBytes2 == {LBRACKET, RBRACKET, MINUS}
GeneralInputs == SeqsUpTo(GenBytes1, MaxLen1) \cup SeqsUpTo(GenBytes2, MaxLen2)

RECURSIVE NestArray(_)
NestArray(n) ==
    IF n = 1 THEN <<LBRACKET, RBRACKET>>
    ELSE <<LBRACKET>> \o NestArray(n - 1) \o <<RBRACKET>>

RECURSIVE NestObject(_)
NestObject(n) ==
    IF n = 1 THEN <<LBRACE, RBRACE>>
    ELSE <<LBRACE, QUOTE, Cha, QUOTE, COLON>> \o NestObject(n - 1) \o <<RBRACE>>

NestInputs == {NestArray(n) : n \in 1..MaxNest} \cup {NestObject(n) : n \in 1..MaxNest}

\* The pieces a string body is made of: escape characters, a raw control
\* byte, the two bytes of a 2-byte UTF-8 sequence, the tail of a \u escape.
BodyTokens ==
    {<<BACKSLASH>>, <<QUOTE>>, <<Chn>>, <<LF>>, <<195>>, <<169>>,
     <<Chu, Ch0, Ch0, 52, Ch1>>}
StringBodies == {Flatten(ts) : ts \in SeqsUpTo(BodyTokens, MaxBody)}
ArrayStringInputs == {<<LBRACKET, QUOTE>> \o b \o <<QUOTE, RBRACKET>> : b \in StringBodies}
ObjectStringInputs ==
    {<<Chx, LBRACE, QUOTE, Cha, QUOTE, COLON, QUOTE>> \o b \o <<QUOTE, RBRACE>> :
        b \in StringBodies}

\* Strings made of the escapes \uD83D (a high surrogate), \uDE00 (a low
\* surrogate), \u0041 and a plain letter.
SurrogateTokens ==
    {<<BACKSLASH, Chu, 68, 56, 51, 68>>, <<BACKSLASH, Chu, 68, 69, Ch0, Ch0>>,
     <<BACKSLASH, Chu, Ch0, Ch0, 52, Ch1>>, <<Chx>>}
SurrogateBodies == {Flatten(ts) : ts \in SeqsUpTo(SurrogateTokens, MaxSurrogateTokens)}
SurrogateInputs ==
    {<<LBRACKET, QUOTE>> \o b \o <<QUOTE, RBRACKET>> : b \in SurrogateBodies}
    \cup {<<LBRACE, QUOTE, Cha, QUOTE, COLON, QUOTE>> \o b \o <<QUOTE, RBRACE>> :
             b \in SurrogateBodies}

\* JSON source text of string bodies in which a backslash escape is itself
\* preceded by an escaped backslash, with the character each stands for in
\* the tests of the repository: \\n, \\\", \\u0041, \\\\, a plain letter,
\* and \\" (an escaped backslash followed by a bare quote).
EscapedNewline == [src |-> <<BACKSLASH, BACKSLASH, Chn>>, ch |-> LF]
EscapedQuote == [src |-> <<BACKSLASH, BACKSLASH, BACKSLASH, QUOTE>>, ch |-> QUOTE]
EscapedUnicode == [src |-> <<BACKSLASH, BACKSLASH, Chu, Ch0, Ch0, 52, Ch1>>, ch |-> ChA]
EscapedBackslash == [src |-> <<BACKSLASH, BACKSLASH, BACKSLASH, BACKSLASH>>, ch |-> BACKSLASH]
PlainLetter == [src |-> <<Chx>>, ch |-> Chx]
BackslashThenQuote == [src |-> <<BACKSLASH, BACKSLASH, QUOTE>>, ch |-> QUOTE]
DoubleEscapeTokens ==
    {EscapedNewline, EscapedQuote, EscapedUnicode, EscapedBackslash, PlainLetter,
     BackslashThenQuote}

SourceOf(ts) == Flatten([j \in 1..Len(ts) |-> ts[j].src])
CharsOf(ts) == [j \in 1..Len(ts) |-> ts[j].ch]

\* The object {"a":"<body>"} after one byte of noise.
NoisyObject(body) ==
    <<Chx, LBRACE, QUOTE, Cha, QUOTE, COLON, QUOTE>> \o body \o <<QUOTE, RBRACE>>
DoubleEscapeInputs ==
    {NoisyObject(SourceOf(ts)) : ts \in SeqsUpTo(DoubleEscapeTokens, MaxDoubleTokens)}

\* Single malformed JSON texts, after the tests of the repository, around
\* a member or element v: a missing closing bracket, a trailing comma, an
\* unquoted key, a single-quoted key, a stray quote inside a string, the
\* literal True, the escape \x.
InnerValues ==
    {<<Ch1>>, <<QUOTE, Chx, QUOTE>>, LitTrue, <<LBRACKET, Ch1, RBRACKET>>,
     <<LBRACE, RBRACE>>, <<QUOTE, LBRACKET, RBRACKET, QUOTE>>}
KeyA == <<LBRACE, QUOTE, Cha, QUOTE, COLON>>
MalformedAround(v) ==
    {<<LBRACKET>> \o v,
     KeyA \o v,
     <<LBRACKET>> \o v \o <<COMMA, RBRACKET>>,
     KeyA \o v \o <<COMMA, RBRACE>>,
     <<LBRACE, Cha, COLON>> \o v \o <<RBRACE>>,
     <<LBRACE, 39, Cha, 39, COLON>> \o v \o <<RBRACE>>,
     <<LBRACKET>> \o v \o <<COMMA, QUOTE, Chx, QUOTE, Chx, QUOTE, RBRACKET>>,
     <<LBRACKET>> \o v \o <<COMMA, 84, Chr, Chu, Che, RBRACKET>>,
     <<LBRACKET>> \o v \o <<COMMA, QUOTE, BACKSLASH, Chx, QUOTE, RBRACKET>>}
MalformedInputs == UNION {MalformedAround(v) : v \in InnerValues}

\* Noise and a container holding a container holding one string whose
\* source is one escape: the string is an array element or a member value,
\* one level down.
NestedStringShapes(b) ==
    {<<LBRACKET, LBRACKET, QUOTE>> \o b \o <<QUOTE, RBRACKET, RBRACKET>>,
     <<LBRACKET>> \o KeyA \o <<QUOTE>> \o b \o <<QUOTE, RBRACE, RBRACKET>>,
     KeyA \o <<LBRACKET, QUOTE>> \o b \o <<QUOTE, RBRACKET, RBRACE>>,
     KeyA \o KeyA \o <<QUOTE>> \o b \o <<QUOTE, RBRACE, RBRACE>>}
NestedStringInputs ==
    UNION {{<<Chx>> \o d : d \in NestedStringShapes(tk.src)} :
              tk \in {EscapedNewline, EscapedUnicode, PlainLetter}}

\* An array of one string that may hold a bracket, followed by noise that
\* may hold a quote and a closing bracket.
OverlapInputs ==
    {<<LBRACKET, QUOTE>> \o b \o <<QUOTE, RBRACKET>> \o tl :
        b \in SeqsUpTo({LBRACKET, Chx}, MaxOverlapBody),
        tl \in SeqsUpTo({Chx, QUOTE, RBRACKET}, MaxOverlapTail)}

Opt(maxDepth, bufferSize) == [maxDepth |-> maxDepth, bufferSize |-> bufferSize]

\* The calls the model makes: input bytes, options and destination kind.
Scenarios ==
    (GeneralInputs
        \X {defaultOptions, Opt(2, DefaultBufferSize), Opt(DefaultMaxDepth, SmallBuffer)}
        \X {"interface"})
    \cup (NestInputs
        \X ({Opt(m, DefaultBufferSize) : m \in 1..(MaxNest + 1)} \cup {defaultOptions})
        \X {"interface"})
    \cup (ArrayStringInputs
        \X {defaultOptions, Opt(DefaultMaxDepth, SmallBuffer)}
        \X {"interface", "slice"})
    \cup (ObjectStringInputs \X {defaultOptions} \X {"interface", "map"})
    \cup (GeneralInputs
        \X {defaultOptions, Opt(DefaultMaxDepth, SmallBuffer)}
        \X {"ints"})
    \cup (SurrogateInputs
        \X {defaultOptions, Opt(DefaultMaxDepth, SmallBuffer)}
        \X {"interface", "slice", "map"})
    \cup (DoubleEscapeInputs
        \X {defaultOptions, Opt(DefaultMaxDepth, SmallBuffer)}
        \X {"map"})
    \cup (MalformedInputs
        \X {defaultOptions, Opt(DefaultMaxDepth, SmallBuffer)}
        \X {"interface"})
    \cup (NestedStringInputs \X {defaultOptions} \X {"interface", "slice", "map"})
    \cup (OverlapInputs \X {defaultOptions} \X {"interface"})

\* ------------------------------------------------------------------------
\* State
\* ------------------------------------------------------------------------
VARIABLES
    input,   \* the bytes passed to Unmarshal / the content of the stream
    opts,    \* the options of the call / of the Decoder
    kind,    \* the kind of the destination variable
    call,    \* the last completed call and what it returned
    dec,     \* the Decoder, once New has been called
    ndec,    \* the number of Decode calls made
    srch,    \* one run of parseLongest's loop over candidate outcomes
    pool,    \* bufferPool: the buffers checked in
    store,   \* the buffers allocated so far: backing array and len(data)
    gor,     \* the goroutines running an extraction call each
    par,     \* one parser: its scanner, p.depth and its active calls
    esc,     \* one use of the escape and surrogate functions
    scn      \* one scanner over a source that delivers its bytes in pieces

callVars == <<input, opts, kind, call, dec, ndec>>
poolVars == <<pool, store, gor>>
vars == <<input, opts, kind, call, dec, ndec, srch, pool, store, gor, par, esc, scn>>

NewDest(k) == [kind |-> k, v |-> NilValue]

NoCall ==
    [op |-> "none", err |-> NoErr, dest |-> NewDest("interface"), json |-> <<>>,
     perr |-> NoErr, path |-> "", from |-> 0, seen |-> 0]

NoSearch ==
    [custom |-> FALSE, outs |-> <<>>, k |-> 0, best |-> <<>>, found |-> FALSE,
     done |-> TRUE, res |-> longestResult(<<>>, FALSE)]

NoGoroutines == <<>>

\* A parser that has not been created.
NoParser ==
    [data |-> <<>>, o |-> defaultOptions,
     s |-> newScanner(newReader(<<>>, "bytes"), DefaultBufferSize),
     depth |-> 0, stack |-> <<>>, status |-> "none", res |-> [buf |-> <<>>, err |-> NoErr]]

\* No escape function has been applied.
NoEscape ==
    [op |-> "none", x |-> <<>>, high |-> 0, low |-> 0, out |-> <<>>, err |-> NoErr, r |-> 0]

\* No scanner is being stepped.
NoScan ==
    [src |-> <<>>, plan |-> <<>>, s |-> newScanner(newReader(<<>>, "bytes"), DefaultBufferSize),
     delivered |-> <<>>, last |-> [op |-> "none", b |-> 0, err |-> NoErr],
     prev |-> [op |-> "none", b |-> 0, err |-> NoErr]]

\* Nothing has been called and no decoder exists.
InitCalls ==
    /\ call = NoCall
    /\ dec = NoDecoder
    /\ ndec = 0

\* The pool is empty and no goroutine runs.
InitPool ==
    /\ pool = {}
    /\ store = <<>>
    /\ gor = NoGoroutines

Init ==
    /\ \E sc \in Scenarios : input = sc[1] /\ opts = sc[2] /\ kind = sc[3]
    /\ InitCalls
    /\ srch = NoSearch
    /\ InitPool
    /\ par = NoParser
    /\ esc = NoEscape
    /\ scn = NoScan

\* err := Unmarshal(input, &v, opts...) with v a fresh variable.
CallUnmarshal ==
    /\ call.op = "none" /\ ~dec.open
    /\ With(Unmarshal(input, NewDest(kind), opts), LAMBDA r :
          call' = [op |-> "Unmarshal", err |-> r.err, dest |-> r.dest,
                   json |-> r.json, perr |-> r.perr, path |-> r.path, from |-> 0,
                   seen |-> 0])
    /\ UNCHANGED <<input, opts, kind, dec, ndec, srch, pool, store, gor, par, esc, scn>>

\* d := New(strings.NewReader(input), opts...)
CallNew ==
    /\ call.op = "none" /\ ~dec.open
    /\ dec' = New(input, opts)
    /\ UNCHANGED <<input, opts, kind, call, ndec, srch, pool, store, gor, par, esc, scn>>

\* err := d.Decode(&v) with v a fresh variable.
CallDecode ==
    /\ dec.open /\ ndec < MaxDecodes
    /\ With(Decode(dec, NewDest(kind)), LAMBDA r :
          /\ dec' = r.dec
          /\ call' = [op |-> "Decode", err |-> r.err, dest |-> r.dest,
                      json |-> r.json, perr |-> r.perr, path |-> "",
                      from |-> dec.scanner.offset,
                      seen |-> dec.scanner.seen])
    /\ ndec' = ndec + 1
    /\ UNCHANGED <<input, opts, kind, srch, pool, store, gor, par, esc, scn>>

Next == CallUnmarshal \/ CallNew \/ CallDecode

Spec == Init /\ [][Next]_vars

\* ------------------------------------------------------------------------
\* parseLongest's loop, one candidate per step.  The outcome of
\* tryParseFromPosition on each candidate is given: the search is the same
\* for every input whose candidates have these outcomes, and the bytes that
\* are no candidate do not enter into it.
\* ------------------------------------------------------------------------
okOutcome(json) == [json |-> json, length |-> Len(json), err |-> NoErr]
failOutcome(e) == [json |-> <<>>, length |-> 0, err |-> e]

\* Outcomes tryParseFromPosition has: three extracted values of two
\* lengths, the depth error of checkDepth, a syntax error, the scanner's
\* io.EOF.
CandidateOutcomes ==
    {okOutcome(<<LBRACKET, RBRACKET>>), okOutcome(<<LBRACE, RBRACE>>),
     okOutcome(<<LBRACKET, Ch1, RBRACKET>>),
     failOutcome(checkDepth(DefaultMaxDepth, defaultOptions)),
     failOutcome(newSyntaxError("expected ',' or ']'")),
     failOutcome(ioEOF)}

InitSearch ==
    /\ input = <<>> /\ opts = defaultOptions /\ kind = "interface"
    /\ InitCalls
    /\ InitPool
    /\ par = NoParser
    /\ esc = NoEscape
    /\ scn = NoScan
    /\ \E custom \in BOOLEAN, outs \in SeqsUpTo(CandidateOutcomes, MaxCandidates) :
         srch = [custom |-> custom, outs |-> outs, k |-> 0, best |-> <<>>,
                 found |-> FALSE, done |-> FALSE, res |-> longestResult(<<>>, FALSE)]

\* One iteration of the loop on a '{' or '[': the next candidate is tried.
TryCandidate ==
    /\ ~srch.done /\ srch.k < Len(srch.outs)
    /\ With(candidateStep(srch.outs[srch.k + 1], srch.custom, srch.best, srch.found),
            LAMBDA c :
              srch' = IF c.abort
                      THEN [srch EXCEPT !.k = srch.k + 1, !.done = TRUE,
                                        !.res = [json |-> <<>>, err |-> c.err]]
                      ELSE [srch EXCEPT !.k = srch.k + 1, !.best = c.best,
                                        !.found = c.found])
    /\ UNCHANGED <<input, opts, kind, call, dec, ndec, pool, store, gor, par, esc, scn>>

\* The loop has ended: parseLongest returns.
ReturnLongest ==
    /\ ~srch.done /\ srch.k = Len(srch.outs)
    /\ srch' = [srch EXCEPT !.done = TRUE, !.res = longestResult(srch.best, srch.found)]
    /\ UNCHANGED <<input, opts, kind, call, dec, ndec, pool, store, gor, par, esc, scn>>

NextSearch == TryCandidate \/ ReturnLongest

SpecSearch == InitSearch /\ [][NextSearch]_vars

\* ------------------------------------------------------------------------
\* bufferPool shared by goroutines.  Each goroutine makes one extraction
\* call on its own input: parseNext checks a buffer out, the parser writes
\* the extracted bytes into it one by one, parseNext returns buf.bytes()
\* and its deferred putBuffer checks the buffer in; the caller then reads
\* the returned slice (the copy of parseLongest, json.Unmarshal in Decode).
\* A buffer is its backing array and len(data); the extracted values are
\* shorter than the array's capacity, so grow never moves the array.
\* ------------------------------------------------------------------------
Goroutines == 1..NumGoroutines

PoolInputs ==
    {<<LBRACKET, RBRACKET>>, <<LBRACE, RBRACE>>, <<LBRACKET, Ch1, RBRACKET>>}

newBuffer == [data |-> <<>>, len |-> 0]

\* b.data = append(b.data, c): the array cell after the len(data) valid
\* bytes is written.
writeByte(b, c) ==
    [data |-> IF b.len < Len(b.data) THEN [b.data EXCEPT ![b.len + 1] = c]
              ELSE Append(b.data, c),
     len |-> b.len + 1]

\* b.data = b.data[:0]: the array keeps its contents.
reset(b) == [b EXCEPT !.len = 0]

\* A goroutine about to call parseNext on data: out is what the parser
\* extracts from it.
newGoroutine(data) ==
    [pc |-> "start", in |-> data, out |-> tryParseFromPosition(data, defaultOptions).json,
     buf |-> 0, n |-> 0, got |-> <<>>, res |-> [err |-> NoErr, dest |-> NewDest("interface")]]

InitPoolSpec ==
    /\ input = <<>> /\ opts = defaultOptions /\ kind = "interface"
    /\ InitCalls
    /\ srch = NoSearch
    /\ par = NoParser
    /\ esc = NoEscape
    /\ scn = NoScan
    /\ pool = {}
    /\ store = <<>>
    /\ \E ins \in [Goroutines -> PoolInputs] :
         gor = [g \in Goroutines |-> newGoroutine(ins[g])]

\* buf := getBuffer(): bufferPool.Get returns a buffer that was checked in,
\* or one made by New.
GetBuffer(g) ==
    /\ gor[g].pc = "start"
    /\ \/ \E b \in pool :
            /\ pool' = pool \ {b}
            /\ store' = store
            /\ gor' = [gor EXCEPT ![g].pc = "parse", ![g].buf = b]
       \/ /\ Len(store) < MaxBuffers
          /\ store' = Append(store, newBuffer)
          /\ pool' = pool
          /\ gor' = [gor EXCEPT ![g].pc = "parse", ![g].buf = Len(store) + 1]
    /\ UNCHANGED <<input, opts, kind, call, dec, ndec, srch, par, esc, scn>>

\* buf.writeByte of the next extracted byte.
WriteByte(g) ==
    /\ gor[g].pc = "parse"
    /\ store[gor[g].buf].len < Len(gor[g].out)
    /\ store' = [store EXCEPT ![gor[g].buf] =
                    writeByte(@, gor[g].out[store[gor[g].buf].len + 1])]
    /\ UNCHANGED <<input, opts, kind, call, dec, ndec, srch, pool, gor, par, esc, scn>>

\* return buf.bytes(), nil; then the deferred putBuffer(buf): the caller
\* is left with a slice of n bytes over the array of the buffer that is
\* back in the pool.
ParseNextReturn(g) ==
    /\ gor[g].pc = "parse"
    /\ store[gor[g].buf].len = Len(gor[g].out)
    /\ gor' = [gor EXCEPT ![g].pc = "use", ![g].n = store[gor[g].buf].len]
    /\ store' = [store EXCEPT ![gor[g].buf] = reset(@)]
    /\ pool' = pool \cup {gor[g].buf}
    /\ UNCHANGED <<input, opts, kind, call, dec, ndec, srch, par, esc, scn>>

\* The caller reads the next byte of the returned slice.
ReadByte(g) ==
    /\ gor[g].pc = "use"
    /\ Len(gor[g].got) < gor[g].n
    /\ gor' = [gor EXCEPT ![g].got =
                  Append(@, store[gor[g].buf].data[Len(gor[g].got) + 1])]
    /\ UNCHANGED <<input, opts, kind, call, dec, ndec, srch, pool, store, par, esc, scn>>

\* The caller has read the slice: json.Unmarshal(jsonBytes, v) completes.
FinishCall(g) ==
    /\ gor[g].pc = "use"
    /\ Len(gor[g].got) = gor[g].n
    /\ gor' = [gor EXCEPT ![g].pc = "done",
                          ![g].res = jsonUnmarshal(gor[g].got, NewDest("interface"))]
    /\ UNCHANGED <<input, opts, kind, call, dec, ndec, srch, pool, store, par, esc, scn>>

NextPool ==
    \E g \in Goroutines :
        GetBuffer(g) \/ WriteByte(g) \/ ParseNextReturn(g) \/ ReadByte(g) \/ FinishCall(g)

SpecPool == InitPoolSpec /\ [][NextPool]_vars

\* ------------------------------------------------------------------------
\* One parser, call by call.  The calls of parseObject and parseArray that
\* have not returned are the frames of par.stack, the innermost last; a
\* frame holds the buffer of its call and where the call stands:
\*   "entered"  p.depth++ is done, checkDepth is next
\*   "open"     checkDepth has passed
\*   "elem"     the loop is about to parse a member / an element
\*   "wait"     parseElement has called parseObject or parseArray
\*   "sep"      the loop is about to read ',' or the closing bracket
\*   "ret"      the call is returning err; its deferred p.depth-- is next
\* Strings, numbers and literals are parsed in one step.
\* ------------------------------------------------------------------------
newFrame(b) ==
    [fn |-> IF b = LBRACE THEN "obj" ELSE "arr", phase |-> "entered",
     buf |-> <<>>, err |-> NoErr]

Top(stack) == stack[Len(stack)]

setTop(stack, f) == [stack EXCEPT ![Len(stack)] = f]

closeByte(f) == IF f.fn = "obj" THEN RBRACE ELSE RBRACKET

openByte(f) == IF f.fn = "obj" THEN LBRACE ELSE LBRACKET

\* The frame returns err.
returning(f, e) == [f EXCEPT !.phase = "ret", !.err = e]

\* The depths and input of the parsers that are run step by step.
ParserScenarios ==
    (GeneralInputs \X {Opt(m, DefaultBufferSize) : m \in 1..3})
    \cup (NestInputs
            \X ({Opt(m, DefaultBufferSize) : m \in 1..(MaxNest + 1)} \cup {defaultOptions}))

InitParser ==
    /\ input = <<>> /\ opts = defaultOptions /\ kind = "interface"
    /\ InitCalls
    /\ srch = NoSearch
    /\ InitPool
    /\ \E sc \in ParserScenarios :
         par = [data |-> sc[1], o |-> sc[2],
                s |-> newScanner(newReader(sc[1], "bytes"), sc[2].bufferSize),
                depth |-> 0, stack |-> <<>>, status |-> "new",
                res |-> [buf |-> <<>>, err |-> NoErr]]
    /\ esc = NoEscape
    /\ scn = NoScan

\* parseNext up to the p.depth++ of the parseObject or parseArray that
\* parseValue calls.
ParseNextStart ==
    /\ par.status = "new"
    /\ With(findJSONStart(par.s), LAMBDA f :
          par' = IF f.err # NoErr
                 THEN [par EXCEPT !.s = f.s, !.status = "done",
                                  !.res = [buf |-> <<>>, err |-> f.err]]
                 ELSE [par EXCEPT !.s = f.s, !.status = "run", !.depth = 1,
                                  !.stack = <<newFrame(f.b)>>])
    /\ UNCHANGED <<input, opts, kind, call, dec, ndec, srch, pool, store, gor, esc, scn>>

\* if err := p.checkDepth(); err != nil { return nil, err }
CheckDepthStep ==
    /\ par.status = "run" /\ Top(par.stack).phase = "entered"
    /\ par' = [par EXCEPT !.stack =
                 setTop(@, IF checkDepth(par.depth, par.o) # NoErr
                           THEN returning(Top(par.stack), checkDepth(par.depth, par.o))
                           ELSE [Top(par.stack) EXCEPT !.phase = "open"])]
    /\ UNCHANGED <<input, opts, kind, call, dec, ndec, srch, pool, store, gor, esc, scn>>

\* The opening bracket is written and consumed; an empty object or array
\* returns, any other enters the loop.
openStep(s, f) ==
    With(next(s), LAMBDA n :
       IF n.err # NoErr THEN [s |-> n.s, f |-> returning(f, n.err)]
       ELSE IF n.b # openByte(f)
       THEN [s |-> n.s, f |-> returning(f, newSyntaxError(IF f.fn = "obj" THEN "expected '{'"
                                                      ELSE "expected '['"))]
       ELSE With(skipWhitespace(n.s), LAMBDA w :
               IF w.err # NoErr THEN [s |-> w.s, f |-> returning(f, w.err)]
               ELSE With(peek(w.s), LAMBDA p :
                       IF p.err # NoErr THEN [s |-> p.s, f |-> returning(f, p.err)]
                       ELSE IF p.b = closeByte(f)
                       THEN [s |-> next(p.s).s,
                             f |-> [f EXCEPT !.phase = "ret",
                                             !.buf = <<openByte(f), closeByte(f)>>]]
                       ELSE [s |-> p.s,
                             f |-> [f EXCEPT !.phase = "elem",
                                             !.buf = <<openByte(f)>>]])))

OpenStep ==
    /\ par.status = "run" /\ Top(par.stack).phase = "open"
    /\ With(openStep(par.s, Top(par.stack)), LAMBDA r :
          par' = [par EXCEPT !.s = r.s, !.stack = setTop(@, r.f)])
    /\ UNCHANGED <<input, opts, kind, call, dec, ndec, srch, pool, store, gor, esc, scn>>

\* parseElement at scanner s with the frame's buffer buf: a '{' or '['
\* makes it call parseObject or parseArray (call is TRUE), anything else
\* is parsed at once.
elementStep(s, f, buf, depth, o) ==
    With(skipWhitespace(s), LAMBDA w :
       IF w.err # NoErr THEN [s |-> w.s, f |-> returning(f, w.err), call |-> FALSE, b |-> 0]
       ELSE With(peek(w.s), LAMBDA p :
               IF p.err # NoErr
               THEN [s |-> p.s, f |-> returning(f, p.err), call |-> FALSE, b |-> 0]
               ELSE IF p.b = LBRACE \/ p.b = LBRACKET
               THEN [s |-> p.s, f |-> [f EXCEPT !.phase = "wait", !.buf = buf],
                     call |-> TRUE, b |-> p.b]
               ELSE With(parseElement(p.s, buf, depth, o), LAMBDA r :
                       IF r.err # NoErr
                       THEN [s |-> r.s, f |-> returning(f, r.err), call |-> FALSE, b |-> 0]
                       ELSE [s |-> r.s, f |-> [f EXCEPT !.phase = "sep", !.buf = r.buf],
                             call |-> FALSE, b |-> 0])))

\* The member of an object: parseKeyValuePair up to parseElement, then
\* parseElement.
memberStep(s, f, depth, o) ==
    With(parseKeyColon(s, f.buf), LAMBDA k :
       IF k.err # NoErr
       THEN [s |-> k.s, f |-> returning(f, k.err), call |-> FALSE, b |-> 0]
       ELSE elementStep(k.s, f, k.buf, depth, o))

\* One member or element; a nested object or array is entered with
\* p.depth++.
ElemStep ==
    /\ par.status = "run" /\ Top(par.stack).phase = "elem"
    /\ With(IF Top(par.stack).fn = "obj"
            THEN memberStep(par.s, Top(par.stack), par.depth, par.o)
            ELSE elementStep(par.s, Top(par.stack), Top(par.stack).buf, par.depth, par.o),
            LAMBDA r :
              par' = IF r.call
                     THEN [par EXCEPT !.s = r.s, !.depth = par.depth + 1,
                                      !.stack = Append(setTop(@, r.f), newFrame(r.b))]
                     ELSE [par EXCEPT !.s = r.s, !.stack = setTop(@, r.f)])
    /\ UNCHANGED <<input, opts, kind, call, dec, ndec, srch, pool, store, gor, esc, scn>>

\* After a member or element: ',' or the closing bracket.
sepStep(s, f) ==
    With(skipWhitespace(s), LAMBDA w :
       IF w.err # NoErr THEN [s |-> w.s, f |-> returning(f, w.err)]
       ELSE With(next(w.s), LAMBDA n :
               IF n.err # NoErr THEN [s |-> n.s, f |-> returning(f, n.err)]
               ELSE IF n.b = closeByte(f)
               THEN [s |-> n.s,
                     f |-> [f EXCEPT !.phase = "ret", !.buf = Append(f.buf, n.b)]]
               ELSE IF n.b = COMMA
               THEN [s |-> n.s,
                     f |-> [f EXCEPT !.phase = "elem", !.buf = Append(f.buf, COMMA)]]
               ELSE [s |-> n.s,
                     f |-> returning(f, newSyntaxError(IF f.fn = "obj"
                                                       THEN "expected ',' or '}'"
                                                       ELSE "expected ',' or ']'"))]))

SepStep ==
    /\ par.status = "run" /\ Top(par.stack).phase = "sep"
    /\ With(sepStep(par.s, Top(par.stack)), LAMBDA r :
          par' = [par EXCEPT !.s = r.s, !.stack = setTop(@, r.f)])
    /\ UNCHANGED <<input, opts, kind, call, dec, ndec, srch, pool, store, gor, esc, scn>>

\* The caller's frame after the callee f has returned: an error is
\* returned further, the bytes of a value are written to the caller's
\* buffer.
afterCall(caller, f) ==
    IF f.err # NoErr THEN returning(caller, f.err)
    ELSE [caller EXCEPT !.phase = "sep", !.buf = caller.buf \o f.buf]

\* A call returns, and its p.depth-- runs only when it returns a value.
ReturnStepKeepDepthOnError ==
    /\ par.status = "run" /\ Top(par.stack).phase = "ret"
    /\ With(IF Top(par.stack).err = NoErr THEN par.depth - 1 ELSE par.depth, LAMBDA d :
          par' = IF Len(par.stack) = 1
                 THEN [par EXCEPT !.depth = d, !.stack = <<>>,
                                  !.status = "done",
                                  !.res = [buf |-> IF Top(par.stack).err = NoErr
                                                   THEN Top(par.stack).buf ELSE <<>>,
                                           err |-> Top(par.stack).err]]
                 ELSE [par EXCEPT !.depth = d,
                                  !.stack = setTop(SubSeq(@, 1, Len(@) - 1),
                                                   afterCall(@[Len(@) - 1], Top(@)))])
    /\ UNCHANGED <<input, opts, kind, call, dec, ndec, srch, pool, store, gor, esc, scn>>

\* A call returns: its deferred p.depth-- runs, and the result goes to the
\* calling parseElement, or to parseNext's caller.
ReturnStep ==
    /\ par.status = "run" /\ Top(par.stack).phase = "ret"
    /\ par' = IF Len(par.stack) = 1
              THEN [par EXCEPT !.depth = par.depth - 1, !.stack = <<>>,
                               !.status = "done",
                               !.res = [buf |-> IF Top(par.stack).err = NoErr
                                                THEN Top(par.stack).buf ELSE <<>>,
                                        err |-> Top(par.stack).err]]
              ELSE [par EXCEPT !.depth = par.depth - 1,
                               !.stack = setTop(SubSeq(@, 1, Len(@) - 1),
                                                afterCall(@[Len(@) - 1], Top(@)))]
    /\ UNCHANGED <<input, opts, kind, call, dec, ndec, srch, pool, store, gor, esc, scn>>

NextParser ==
    ParseNextStart \/ CheckDepthStep \/ OpenStep \/ ElemStep \/ SepStep \/ ReturnStep

SpecParser == InitParser /\ [][NextParser]_vars

\* ------------------------------------------------------------------------
\* The escape and surrogate functions applied to given texts and runes:
\* encodeEscape followed by processEscape, decodeSurrogatePair, and
\* decodeEscapeSequences / processEscape on the text \uHHHH\uLLLL.
\* ------------------------------------------------------------------------
EscapeBytes == {QUOTE, BACKSLASH, SLASH, BS, FF, LF, CR, TAB, 1, 31, Cha, Chu}
EscapeTexts == SeqsUpTo(EscapeBytes, MaxText)

\* Runes around the borders of the two surrogate ranges, and U+1234.
SurrogateRunes == {4660, 55295, 55296, 55357, 56319, 56320, 56832, 57343, 57344}

\* The escape \uXXXX of a rune below 0x10000.
escapeOf(r) ==
    <<BACKSLASH, Chu, hexUpper(r \div 4096), hexUpper((r \div 256) % 16),
      hexUpper((r \div 16) % 16), hexUpper(r % 16)>>

\* String texts: the opening quote followed by backslashes, quotes, the
\* escape letter n and the letter x, which is no escape letter.
StringTexts ==
    {<<QUOTE>> \o b : b \in SeqsUpTo({BACKSLASH, QUOTE, Chn, Chx}, MaxStringBody)}

\* String texts with raw bytes >= 0x80: lead bytes of 2, 3 and 4 byte
\* sequences (C3, E2, F0), a continuation byte (A9), a byte that is neither
\* (F8) and a letter, with and without the closing quote.
Utf8Bodies == SeqsUpTo({195, 226, 240, 169, 248, Chx}, MaxUtf8Body)
Utf8Texts ==
    {<<QUOTE>> \o b : b \in Utf8Bodies} \cup {<<QUOTE>> \o b \o <<QUOTE>> : b \in Utf8Bodies}

InitEscape ==
    /\ input = <<>> /\ opts = defaultOptions /\ kind = "interface"
    /\ InitCalls
    /\ srch = NoSearch
    /\ InitPool
    /\ par = NoParser
    /\ scn = NoScan
    /\ \/ \E x \in EscapeTexts : esc = [NoEscape EXCEPT !.x = x]
       \/ \E x \in StringTexts : esc = [NoEscape EXCEPT !.x = x]
       \/ \E x \in Utf8Texts : esc = [NoEscape EXCEPT !.x = x]
       \/ \E h \in SurrogateRunes, l \in SurrogateRunes :
             esc = [NoEscape EXCEPT !.high = h, !.low = l,
                                    !.x = escapeOf(h) \o escapeOf(l)]

EncodeEscape ==
    /\ esc.op = "none"
    /\ esc' = [esc EXCEPT !.op = "encodeEscape", !.out = encodeEscape(esc.x)]
    /\ UNCHANGED <<input, opts, kind, call, dec, ndec, srch, pool, store, gor, par, scn>>

\* processEscape applied to what encodeEscape returned.
ProcessEscape ==
    /\ esc.op = "encodeEscape"
    /\ With(processEscape(esc.out), LAMBDA p :
          esc' = [esc EXCEPT !.op = "processEscape", !.out = p.out, !.err = p.err])
    /\ UNCHANGED <<input, opts, kind, call, dec, ndec, srch, pool, store, gor, par, scn>>

DecodeSurrogatePair ==
    /\ esc.op = "none"
    /\ esc' = [esc EXCEPT !.op = "decodeSurrogatePair",
                          !.r = decodeSurrogatePair(esc.high, esc.low)]
    /\ UNCHANGED <<input, opts, kind, call, dec, ndec, srch, pool, store, gor, par, scn>>

\* decodeEscapeSequences applied to the text itself.
DecodeEscapeSequences ==
    /\ esc.op = "none"
    /\ esc' = [esc EXCEPT !.op = "decodeEscapeSequences",
                          !.out = decodeEscapeSequences(esc.x)]
    /\ UNCHANGED <<input, opts, kind, call, dec, ndec, srch, pool, store, gor, par, scn>>

\* processEscape applied to the text itself.
ProcessEscapeText ==
    /\ esc.op = "none"
    /\ With(processEscape(esc.x), LAMBDA p :
          esc' = [esc EXCEPT !.op = "processEscapeText", !.out = p.out, !.err = p.err])
    /\ UNCHANGED <<input, opts, kind, call, dec, ndec, srch, pool, store, gor, par, scn>>

\* parseString applied to the text, read through a scanner of either
\* buffer size; r is the scanner's offset afterwards.
ParseString ==
    /\ esc.op = "none"
    /\ \E size \in {SmallBuffer, DefaultBufferSize} :
         With(parseString(newScanner(newReader(esc.x, "bytes"), size), <<>>), LAMBDA p :
            esc' = [esc EXCEPT !.op = "parseString", !.out = p.buf, !.err = p.err,
                               !.r = p.s.offset])
    /\ UNCHANGED <<input, opts, kind, call, dec, ndec, srch, pool, store, gor, par, scn>>

NextEscape ==
    \/ EncodeEscape \/ ProcessEscape \/ DecodeSurrogatePair
    \/ DecodeEscapeSequences \/ ProcessEscapeText \/ ParseString

SpecEscape == InitEscape /\ [][NextEscape]_vars

\* ------------------------------------------------------------------------
\* One scanner stepped call by call over a source that delivers its bytes
\* in pieces: peek and next, each with the refill it triggers.
\* ------------------------------------------------------------------------
ScanBytes == {Chx, LF, LBRACKET}
ScanSources == SeqsUpTo(ScanBytes, MaxScanLen)
\* The sizes of the pieces; a piece of 0 bytes is a Read that returns
\* 0, nil, which io.Reader permits.
ReadPlans == SeqsUpTo(0..MaxPiece, MaxReads)
ScanBufferSizes == 1..MaxScanBuffer

InitScanner ==
    /\ input = <<>> /\ opts = defaultOptions /\ kind = "interface"
    /\ InitCalls
    /\ srch = NoSearch
    /\ InitPool
    /\ par = NoParser
    /\ esc = NoEscape
    /\ \E d \in ScanSources, plan \in ReadPlans, e \in BOOLEAN, size \in ScanBufferSizes :
         scn = [NoScan EXCEPT !.src = d, !.plan = plan,
                              !.s = newScanner(newChunkedReader(d, plan, e), size)]

ScanPeek ==
    /\ With(peek(scn.s), LAMBDA p :
          scn' = [scn EXCEPT !.s = p.s, !.prev = scn.last,
                             !.last = [op |-> "peek", b |-> p.b, err |-> p.err]])
    /\ UNCHANGED <<input, opts, kind, call, dec, ndec, srch, pool, store, gor, par, esc>>

ScanNext ==
    /\ With(next(scn.s), LAMBDA n :
          scn' = [scn EXCEPT !.s = n.s, !.prev = scn.last,
                             !.last = [op |-> "next", b |-> n.b, err |-> n.err],
                             !.delivered = IF n.err = NoErr THEN Append(@, n.b) ELSE @])
    /\ UNCHANGED <<input, opts, kind, call, dec, ndec, srch, pool, store, gor, par, esc>>

NextScanner == ScanPeek \/ ScanNext

SpecScanner == InitScanner /\ [][NextScanner]_vars

\* ------------------------------------------------------------------------
\* Properties
\* ------------------------------------------------------------------------
\* The candidates of an input: the 1-based indexes of its '{' and '['.
Candidates(data) ==
    {i \in 1..Len(data) : data[i] = LBRACE \/ data[i] = LBRACKET}

\* The outcome of the structural parser anchored at candidate i.
CandidateAt(data, o, i) == tryParseFromPosition(SubSeq(data, i, Len(data)), o)

Parsing(data, o) == {i \in Candidates(data) : CandidateAt(data, o, i).err = NoErr}

DepthFailing(data, o) ==
    {i \in Candidates(data) : isDepthError(CandidateAt(data, o, i).err)}

\* The earliest among the parsing candidates of greatest re-emitted length.
BestCandidate(data, o) ==
    CHOOSE i \in Parsing(data, o) :
        \A j \in Parsing(data, o) :
            \/ CandidateAt(data, o, j).length < CandidateAt(data, o, i).length
            \/ (CandidateAt(data, o, j).length = CandidateAt(data, o, i).length /\ i <= j)

RobustCall == call.op = "Unmarshal" /\ call.path = "robust"

\* C1 as stated: whenever some candidate parses, parseLongest returns the
\* longest parsing candidate, the earliest one among equals.
C1_Original ==
    (RobustCall /\ Parsing(input, opts) # {}) =>
        /\ call.perr = NoErr
        /\ call.json = CandidateAt(input, opts, BestCandidate(input, opts)).json

\* C1 amended: parseLongest returns the longest parsing candidate, earliest
\* among equals, unless the configuration is non-default and some candidate
\* fails with depth exceeded; then it returns that depth error instead.
C1_LongestEarliest ==
    RobustCall =>
        /\ (Parsing(input, opts) # {}
              /\ ~(hasCustomOptions(opts) /\ DepthFailing(input, opts) # {}))
           => /\ call.perr = NoErr
              /\ call.json = CandidateAt(input, opts, BestCandidate(input, opts)).json
        /\ (hasCustomOptions(opts) /\ DepthFailing(input, opts) # {})
           => isDepthError(call.perr)

\* C1 witness: two parsing candidates of the same greatest length and
\* different bytes, and parseLongest has returned.
C1_Witness ==
    /\ RobustCall /\ call.perr = NoErr
    /\ \E i, j \in Parsing(input, opts) :
         /\ i < j
         /\ i = BestCandidate(input, opts)
         /\ CandidateAt(input, opts, j).length = CandidateAt(input, opts, i).length
         /\ CandidateAt(input, opts, j).json # CandidateAt(input, opts, i).json

\* The 1-based indexes of the candidates after the first `from` bytes.
CandidatesFrom(data, from) == {i \in Candidates(data) : i > from}

FirstCandidateFrom(data, from) ==
    CHOOSE i \in CandidatesFrom(data, from) :
        \A j \in CandidatesFrom(data, from) : i <= j

\* The structural parser anchored at the bracket at index i, reading the
\* rest of the data through a fresh scanner.
AnchoredParse(data, o, i) ==
    parseValue(newScanner(newReader(SubSeq(data, i, Len(data)), "bytes"), o.bufferSize),
               data[i], <<>>, o)

\* C2: a Decode call never moves the stream position backwards, and the
\* bytes it extracts are the parse of the first '{' or '[' at or after the
\* position at which the call started, never of a later candidate.
C2_FirstOccurrence ==
    call.op = "Decode" =>
        /\ dec.scanner.offset >= call.from
        /\ call.perr = NoErr =>
             /\ CandidatesFrom(input, call.from) # {}
             /\ With(AnchoredParse(input, opts,
                                       FirstCandidateFrom(input, call.from)), LAMBDA a :
                   /\ a.err = NoErr
                   /\ call.json = a.buf
                   /\ dec.scanner.offset
                        = FirstCandidateFrom(input, call.from) - 1 + a.s.offset)

\* C2 witness: the first Decode has returned the first candidate although a
\* later candidate, the one batch extraction selects, is longer.
C2_Witness ==
    /\ call.op = "Decode" /\ ndec = 1 /\ call.perr = NoErr
    /\ parseLongest(input, opts).err = NoErr
    /\ Len(call.json) < Len(parseLongest(input, opts).json)

\* The nesting depth of a member of NestInputs (a lone [] or {} is 1).
NestLevel(data) ==
    CHOOSE n \in 1..MaxNest : data = NestArray(n) \/ data = NestObject(n)

\* C3 as stated: for a value nested to depth N and a configured maxDepth M,
\* extraction succeeds if and only if M >= N, and when M < N it fails with
\* the Syntax error "maximum nesting depth exceeded".
C3_DepthThreshold ==
    (call.op = "Unmarshal" /\ input \in NestInputs) =>
        /\ (call.err = NoErr) <=> (opts.maxDepth >= NestLevel(input))
        /\ (opts.maxDepth < NestLevel(input)) => isDepthError(call.err)

\* C4 as stated: whenever Unmarshal returns through the fast path, the
\* error and the value stored in the destination are those the robust path
\* (parseLongest, json.Unmarshal, processEscapeSequences) gives for the
\* same input, destination and options.
C4_FastPathTransparent ==
    (call.op = "Unmarshal" /\ call.path = "fast") =>
        With(robustPath(input, NewDest(kind), opts), LAMBDA r :
            /\ r.err = call.err
            /\ r.dest = call.dest)

\* The JSON source text of the value an input carries: the input itself,
\* or the input without its one leading noise byte.
SourceText(data) == IF Head(data) = Chx THEN Tail(data) ELSE data

\* C5 as stated: the strings delivered to the caller are the RFC 8259
\* decoding of their JSON source text, every escape sequence of the source
\* being decoded exactly once; checked on the inputs whose source text is
\* RFC 8259-valid, against the standard deserializer's decoding of it.
C5_DecodedOnce ==
    (call.op = "Unmarshal" /\ call.err = NoErr
        /\ input \in (ArrayStringInputs \cup ObjectStringInputs)
        /\ stdParse(SourceText(input)).ok)
    => call.dest.v = stdParse(SourceText(input)).v

\* The structural parser has returned bytes: parseLongest to Unmarshal, or
\* parseNext to Decode.
ParserReturned ==
    \/ RobustCall /\ call.perr = NoErr
    \/ call.op = "Decode" /\ call.perr = NoErr

\* C6 as stated: every byte sequence the structural parser returns is one
\* complete, grammar-valid RFC 8259 object or array, which the standard
\* deserializer therefore accepts.
C6_OutputGrammarValid ==
    ParserReturned =>
        /\ stdParse(call.json).ok
        /\ stdParse(call.json).v.t \in {"obj", "arr"}

\* The parts of the data that are RFC 8259-valid objects or arrays.
ValidValuesIn(data) ==
    {ij \in (1..Len(data)) \X (1..Len(data)) :
        /\ ij[1] < ij[2]
        /\ data[ij[1]] \in {LBRACE, LBRACKET}
        /\ stdParse(SubSeq(data, ij[1], ij[2])).ok}

\* C7 as stated: with default options, Unmarshal into an interface{}
\* succeeds and stores an object or array whenever the input contains an
\* RFC 8259-valid object or array.
C7_ExtractsValidValue ==
    (call.op = "Unmarshal" /\ opts = defaultOptions /\ kind = "interface"
        /\ ValidValuesIn(input) # {})
    => /\ call.err = NoErr
       /\ call.dest.v.t \in {"obj", "arr"}

\* Unmarshal has returned without the standard deserializer having
\* accepted the whole input, and no candidate of the input parses.
NoCandidateCall ==
    /\ call.op = "Unmarshal" /\ call.path # "fast"
    /\ Parsing(input, opts) = {}

DepthOutcomes(outs) == {k \in 1..Len(outs) : isDepthError(outs[k].err)}

FirstDepthOutcome(outs) ==
    CHOOSE k \in DepthOutcomes(outs) : \A j \in DepthOutcomes(outs) : k <= j

\* C9: once parseLongest has returned, if the configuration is non-default
\* and some candidate failed with depth exceeded, the search stopped at the
\* first such candidate and returned its error, whatever the other
\* candidates are; in every other case all candidates were tried, every
\* failure was skipped, and the result is the longest candidate found or
\* InvalidJSON.
C9_FastFail ==
    (srch.done /\ srch # NoSearch) =>
        IF srch.custom /\ DepthOutcomes(srch.outs) # {}
        THEN /\ srch.k = FirstDepthOutcome(srch.outs)
             /\ srch.res = [json |-> <<>>, err |-> srch.outs[srch.k].err]
        ELSE /\ srch.k = Len(srch.outs)
             /\ IF \E k \in 1..Len(srch.outs) : srch.outs[k].err = NoErr
                THEN /\ srch.res.err = NoErr
                     /\ \E k \in 1..Len(srch.outs) : srch.res.json = srch.outs[k].json
                     /\ \A k \in 1..Len(srch.outs) : srch.outs[k].length <= Len(srch.res.json)
                ELSE srch.res.err.t = "ErrInvalidJSON"

\* C9 witness: with default configuration a candidate failed with depth
\* exceeded, the scan went on, and a later candidate was returned.
C9_Witness ==
    /\ srch.done /\ ~srch.custom
    /\ \E j, k \in 1..Len(srch.outs) :
         /\ j < k
         /\ isDepthError(srch.outs[j].err)
         /\ srch.outs[k].err = NoErr
         /\ srch.res = [json |-> srch.outs[k].json, err |-> NoErr]

\* C10 as stated: the bytes an extraction call reads from the slice that
\* parseNext returned are the bytes its own parser extracted, whatever the
\* other goroutine does, and so is what it deserializes from them.
C10_ReturnedBytesStable ==
    \A g \in DOMAIN gor :
        gor[g].pc = "done" =>
            /\ gor[g].got = gor[g].out
            /\ gor[g].res = jsonUnmarshal(gor[g].out, NewDest("interface"))

\* The parser run call by call returns what parseNext computes: the same
\* bytes, the same error, the same scanner.
ParserStepsAgree ==
    par.status = "done" =>
        With(parseNext(newScanner(newReader(par.data, "bytes"), par.o.bufferSize), par.o),
             LAMBDA r : /\ par.res.err = r.err
                        /\ par.res.buf = r.buf
                        /\ par.s = r.s)

\* The phases in which a call is inside the body of its object or array.
InBody(f) == f.phase \in {"open", "elem", "wait", "sep"}

\* C11: in every state of a parser, 0 <= p.depth <= maxDepth and p.depth
\* is the number of parseObject/parseArray calls that have not returned;
\* a call whose p.depth++ reached maxDepth never gets into its body: it
\* returns the depth error.
C11_DepthBounded ==
    /\ par.depth >= 0
    /\ par.depth <= par.o.maxDepth
    /\ par.depth = Len(par.stack)
    /\ \A i \in 1..Len(par.stack) :
         /\ InBody(par.stack[i]) => i < par.o.maxDepth
         /\ (i >= par.o.maxDepth /\ par.stack[i].phase = "ret")
              => isDepthError(par.stack[i].err)

\* C11 witness: a nested call has brought p.depth to maxDepth and is
\* returning the depth error.
C11_Witness ==
    /\ par.status = "run"
    /\ Len(par.stack) >= 2
    /\ par.depth = par.o.maxDepth
    /\ Top(par.stack).phase = "ret"
    /\ isDepthError(Top(par.stack).err)

\* C12 as stated: whenever Unmarshal or Decode returns an error, the
\* destination is as it was before the call.
C12_AllOrNothing ==
    (call.op \in {"Unmarshal", "Decode"} /\ call.err # NoErr)
    => call.dest = NewDest(kind)

\* A Decode call has returned and the stream held a '{' or '[' at or after
\* the position at which the call started.
DecodeFoundCandidate ==
    /\ call.op = "Decode"
    /\ CandidatesFrom(input, call.from) # {}

\* C13: when the parse of the first '{' or '[' at or after the position at
\* which a Decode call started fails, the call returns that failure, with
\* no value, whatever follows in the stream.
C13_NoMasking ==
    DecodeFoundCandidate =>
        With(AnchoredParse(input, opts, FirstCandidateFrom(input, call.from)), LAMBDA a :
            a.err # NoErr =>
               /\ call.err = a.err
               /\ call.perr = a.err
               /\ call.json = <<>>
               /\ call.dest = NewDest(kind))

\* C13 witness: the first Decode has returned the failure of the first
\* candidate although a later candidate of the stream parses.
C13_Witness ==
    /\ DecodeFoundCandidate /\ ndec = 1
    /\ call.err # NoErr /\ call.err = call.perr
    /\ \E j \in Parsing(input, opts) : j > FirstCandidateFrom(input, call.from)

\* A Decode call has returned and the stream held no '{' or '[' at or after
\* the position at which the call started.
DecodeAtEnd ==
    /\ call.op = "Decode"
    /\ CandidatesFrom(input, call.from) = {}

\* C14: every Decode call made when the stream holds no further '{' or '['
\* fails with an error of kind ErrEOF and returns no value, the first such
\* call and every later one.
C14_EndOfInputKind ==
    DecodeAtEnd =>
        /\ call.err.t = "ErrEOF"
        /\ call.json = <<>>
        /\ call.dest = NewDest(kind)

\* What the code does at the end of the stream: every such Decode call
\* returns the bare io.EOF of the scanner and no value.
DecodeAtEndReturnsEOF ==
    DecodeAtEnd =>
        /\ call.err = ioEOF
        /\ call.json = <<>>
        /\ call.dest = NewDest(kind)

\* A second or later Decode call at the end of the stream has returned.
DecodeAtEndAgain == DecodeAtEnd /\ ndec >= 2 /\ call.from = Len(input)

\* The \u escape at index i of d carries a high surrogate and is not
\* immediately followed by a \u escape carrying a low surrogate.
LoneHighSurrogateAt(d, i) ==
    /\ i + 5 <= Len(d)
    /\ d[i] = BACKSLASH /\ d[i + 1] = Chu
    /\ isHighSurrogate(parseHex4(d, i + 2))
    /\ ~(/\ i + 11 <= Len(d)
         /\ d[i + 6] = BACKSLASH /\ d[i + 7] = Chu
         /\ isLowSurrogate(parseHex4(d, i + 8)))

HasLoneHighSurrogate(d) == \E i \in 1..Len(d) : LoneHighSurrogateAt(d, i)

\* A call on an input that is one candidate whose string holds a lone high
\* surrogate escape.
LoneSurrogateCall ==
    /\ call.op \in {"Unmarshal", "Decode"}
    /\ input \in SurrogateInputs
    /\ HasLoneHighSurrogate(input)
    /\ call.from = 0

\* C15: a lone high surrogate escape inside a string of a candidate makes
\* the extraction of that candidate fail with a Unicode or Escape error;
\* no decoded string is delivered.
C15_LoneSurrogateRejected ==
    LoneSurrogateCall =>
        /\ call.err.t \in {"ErrUnicode", "ErrEscape"}
        /\ call.dest = NewDest(kind)

\* The runes of the state are a high and a low surrogate.
SurrogatePairGiven == isHighSurrogate(esc.high) /\ isLowSurrogate(esc.low)

\* The code point of the pair, as the formula of the claim gives it.
PairCodePoint == 65536 + (esc.high - 55296) * 1024 + (esc.low - 56320)

\* C16: for a high surrogate h and a low surrogate l, decodeSurrogatePair
\* returns 0x10000 + ((h-0xD800)<<10) + (l-0xDC00), a code point in
\* 0x10000..0x10FFFF, and the text \u<h>\u<l> decodes to the UTF-8 bytes
\* of that code point; for any other pair of runes decodeSurrogatePair
\* returns RuneError.
C16_SurrogatePair ==
    /\ esc.op = "decodeSurrogatePair" =>
          IF SurrogatePairGiven
          THEN esc.r = PairCodePoint /\ esc.r >= 65536 /\ esc.r <= 1114111
          ELSE esc.r = RuneError
    /\ (esc.op \in {"decodeEscapeSequences", "processEscapeText"} /\ SurrogatePairGiven) =>
          esc.err = NoErr /\ esc.out = utf8AppendRune(PairCodePoint)

\* C16 witness: decodeSurrogatePair(0xD83D, 0xDE00) has returned U+1F600.
C16_Witness ==
    /\ esc.op = "decodeSurrogatePair"
    /\ esc.high = 55357 /\ esc.low = 56832 /\ esc.r = 128512

\* C17: processEscape(encodeEscape(x)) succeeds and equals x, for every
\* text x, control bytes included.
C17_RoundTrip ==
    esc.op = "processEscape" => esc.err = NoErr /\ esc.out = esc.x

\* Unmarshal has returned from the robust path, called with a map
\* destination on the noisy object whose string body is the source of ts.
DoubleEscapeCall(ts) ==
    /\ call.op = "Unmarshal" /\ call.path = "robust" /\ kind = "map"
    /\ input = NoisyObject(SourceOf(ts))

\* The call succeeded and the member of the map is the string made of the
\* one character each token of ts stands for.
DeliveredChars(ts) ==
    /\ call.err = NoErr
    /\ call.dest.v = ObjectValue(<<<<Cha>>>>, <<ScalarValue("str", CharsOf(ts))>>)

\* C18 as stated: on the robust path into a map, the source texts \\n,
\* \\" (escaped backslash followed by a quote), \\u0041 and \\\\ are each
\* delivered as the single character newline, double quote, 'A', backslash.
C18_Original ==
    \A tk \in {EscapedNewline, BackslashThenQuote, EscapedUnicode, EscapedBackslash} :
        DoubleEscapeCall(<<tk>>) => DeliveredChars(<<tk>>)

\* C18: on the robust path into a map, a string whose source text is made
\* of \\n, \\\" (escaped backslash followed by an escaped quote), \\u0041,
\* \\\\ and plain letters is delivered with each of these as the single
\* character newline, double quote, 'A', backslash.
C18_DoubleEscapeDecoded ==
    \A ts \in SeqsUpTo({EscapedNewline, EscapedQuote, EscapedUnicode, EscapedBackslash,
                        PlainLetter}, MaxDoubleTokens) :
        DoubleEscapeCall(ts) => DeliveredChars(ts)

\* C18 witness: the source text \\\\\\\" has been delivered as the two
\* characters backslash, double quote.
C18_Witness ==
    /\ DoubleEscapeCall(<<EscapedBackslash, EscapedQuote>>)
    /\ DeliveredChars(<<EscapedBackslash, EscapedQuote>>)

\* The buffer sizes compared: the smallest the scanner can make progress
\* with, a small one, and the default.
BufferSizes == {1, SmallBuffer, 3, DefaultBufferSize}

\* What Unmarshal returns for the input and maxDepth of the state when
\* called with buffer size b on a fresh destination.
UnmarshalWith(b) == Unmarshal(input, NewDest(kind), Opt(opts.maxDepth, b))

\* C19: for a fixed input and maxDepth, the error Unmarshal returns and
\* the value it stores are the same for every buffer size.
C19_BufferSizeIrrelevant ==
    call.op = "Unmarshal" =>
        \A b \in BufferSizes :
            /\ UnmarshalWith(b).err = call.err
            /\ UnmarshalWith(b).dest = call.dest

\* Among the buffer sizes other than the default one, and for every buffer
\* size when maxDepth is not the default, the outcome is the same.
RobustPathBufferSizeIrrelevant ==
    call.op = "Unmarshal" =>
        \A b1, b2 \in BufferSizes :
            (opts.maxDepth # DefaultMaxDepth
                \/ (b1 # DefaultBufferSize /\ b2 # DefaultBufferSize))
            => /\ UnmarshalWith(b1).err = UnmarshalWith(b2).err
               /\ UnmarshalWith(b1).dest = UnmarshalWith(b2).dest

\* Unmarshal has returned from a call on a single malformed JSON text.
MalformedCall == call.op = "Unmarshal" /\ input \in MalformedInputs

ParseNextReturned == par.status = "done"

\* C21: the depth counter equals the number of parseObject / parseArray
\* calls that have been entered and have not returned, and it is 0, with
\* no call left open, whenever parseNext has returned, with a value or
\* with an error.
C21_DepthReleased ==
    /\ par.status = "run" => par.depth = Len(par.stack)
    /\ ParseNextReturned => par.depth = 0 /\ par.stack = <<>>

\* C21 witness: parseNext has returned the depth error raised at least
\* three calls deep, and the counter is back at 0.
C21_Witness ==
    /\ ParseNextReturned /\ par.o.maxDepth >= 3
    /\ isDepthError(par.res.err) /\ par.depth = 0

\* The other exit paths are taken too: a value, a syntax error and the end
\* of input, each from below the outermost call.
ReturnedValueNested ==
    ParseNextReturned /\ par.res.err = NoErr /\ Len(par.res.buf) >= 4 /\ par.depth = 0
ReturnedSyntaxError ==
    ParseNextReturned /\ par.res.err.t = "ErrSyntax" /\ ~isDepthError(par.res.err)
ReturnedEndOfInput == ParseNextReturned /\ par.res.err = ioEOF /\ par.s.offset >= 2

\* The number of consecutive backslashes that end just before index i.
RECURSIVE backslashesBefore(_, _)
backslashesBefore(d, i) ==
    IF i > 1 /\ d[i - 1] = BACKSLASH THEN 1 + backslashesBefore(d, i - 1) ELSE 0

\* The quotes after the opening one that are preceded by an even number of
\* consecutive backslashes.
UnescapedQuotes(d) ==
    {i \in 2..Len(d) : d[i] = QUOTE /\ backslashesBefore(d, i) % 2 = 0}

FirstUnescapedQuote(d) ==
    IF UnescapedQuotes(d) = {} THEN 0
    ELSE CHOOSE i \in UnescapedQuotes(d) : \A j \in UnescapedQuotes(d) : i <= j

\* parseString has been applied to a string text.
ParsedString == esc.op = "parseString" /\ esc.x \in StringTexts

\* C22: parseString ends the string at the first quote that is preceded by
\* an even number of consecutive backslashes and at no other byte: when it
\* succeeds it has consumed the text up to that quote and copied it, and it
\* succeeds whenever there is such a quote and no invalid escape before it.
C22_QuoteTermination ==
    ParsedString =>
        With(FirstUnescapedQuote(esc.x), LAMBDA q :
            /\ esc.err = NoErr =>
                  /\ q # 0 /\ esc.r = q
                  /\ esc.out = SubSeq(esc.x, 1, q)
            /\ (q # 0 /\ \A j \in 1..q : esc.x[j] # Chx) => esc.err = NoErr
            /\ q = 0 => esc.err # NoErr)

\* C22 witness: in "\\"n the string has ended at the quote that follows
\* the escaped backslash.
C22_Witness ==
    /\ ParsedString
    /\ esc.x = <<QUOTE, BACKSLASH, BACKSLASH, QUOTE, Chn>>
    /\ esc.err = NoErr /\ esc.r = 4

\* In "\"n" the escaped quote has not ended the string.
EscapedQuoteContinues ==
    /\ ParsedString
    /\ esc.x = <<QUOTE, BACKSLASH, QUOTE, Chn, QUOTE>>
    /\ esc.err = NoErr /\ esc.r = 5

\* The length of the sequence a lead byte announces by its high bits:
\* 110xxxxx, 1110xxxx, 11110xxx; 0 for any other byte.
announcedLength(b) ==
    IF b >= 192 /\ b <= 223 THEN 2
    ELSE IF b >= 224 /\ b <= 239 THEN 3
    ELSE IF b >= 240 /\ b <= 247 THEN 4
    ELSE 0

matchesContinuation(b) == b >= 128 /\ b <= 191

\* What the rule of C23 gives for the string text d read from index i:
\* "ok" at the closing quote, "unicode" at a byte >= 0x80 that is no lead
\* byte or at a wrong continuation byte, "cutoff" when the input ends
\* inside a sequence, "open" when it ends elsewhere.
RECURSIVE utf8Rule(_, _)
utf8Rule(d, i) ==
    IF i > Len(d) THEN "open"
    ELSE IF d[i] = QUOTE THEN "ok"
    ELSE IF d[i] < 128 THEN utf8Rule(d, i + 1)
    ELSE IF announcedLength(d[i]) = 0 THEN "unicode"
    ELSE IF \E j \in (i + 1)..Min(Len(d), i + announcedLength(d[i]) - 1) :
               ~matchesContinuation(d[j])
    THEN "unicode"
    ELSE IF i + announcedLength(d[i]) - 1 > Len(d) THEN "cutoff"
    ELSE utf8Rule(d, i + announcedLength(d[i]))

\* parseString has been applied to a text with raw bytes >= 0x80.
ParsedUtf8 == esc.op = "parseString" /\ esc.x \in Utf8Texts

\* The parts of C23 that do not concern the end of input: complete
\* sequences are copied unchanged, a byte that is no lead byte and a wrong
\* continuation byte give a Unicode error.
Utf8RuleKept ==
    /\ utf8Rule(esc.x, 2) = "ok" => esc.err = NoErr /\ esc.out = esc.x
    /\ utf8Rule(esc.x, 2) = "unicode" => esc.err.t = "ErrUnicode"
    /\ utf8Rule(esc.x, 2) = "open" => esc.err = ioEOF

\* C23 as stated: a sequence cut off by the end of the input makes
\* parseString fail with a Unicode error, like the other violations.
C23_Original ==
    ParsedUtf8 =>
        /\ Utf8RuleKept
        /\ utf8Rule(esc.x, 2) = "cutoff" => esc.err.t = "ErrUnicode"

\* C23: inside a string a raw byte >= 0x80 is accepted only as the lead
\* byte of a complete sequence of the announced length whose other bytes
\* match 10xxxxxx, and the sequence is copied unchanged; any other byte
\* >= 0x80 and a wrong continuation byte give a Unicode error; a sequence
\* cut off by the end of the input gives the scanner's io.EOF.
C23_Utf8Sequences ==
    ParsedUtf8 =>
        /\ Utf8RuleKept
        /\ utf8Rule(esc.x, 2) = "cutoff" => esc.err = ioEOF

\* C23 witness: a three-byte sequence cut off after its second byte has
\* made parseString return io.EOF.
C23_Witness ==
    /\ ParsedUtf8
    /\ esc.x = <<QUOTE, Chx, 226, 169>>
    /\ esc.err = ioEOF

\* A complete four-byte sequence has been copied.
CopiedFourBytes ==
    /\ ParsedUtf8
    /\ esc.x = <<QUOTE, 240, 169, 169, 169, QUOTE>>
    /\ esc.err = NoErr /\ esc.out = esc.x

\* The position of the scanner of a state.
PositionOf(sc) == <<sc.s.offset, sc.s.line, sc.s.column>>

\* What one call of peek or next does to the position.
PositionStep ==
    /\ scn'.s.offset >= scn.s.offset
    /\ scn'.last.op = "peek" => PositionOf(scn') = PositionOf(scn)
    /\ (scn'.last.op = "next" /\ scn'.last.err # NoErr) => PositionOf(scn') = PositionOf(scn)
    /\ (scn'.last.op = "next" /\ scn'.last.err = NoErr) =>
          /\ scn'.s.offset = scn.s.offset + 1
          /\ IF scn'.last.b = LF
             THEN scn'.s.line = scn.s.line + 1 /\ scn'.s.column = 1
             ELSE scn'.s.line = scn.s.line /\ scn'.s.column = scn.s.column + 1

\* C24: during a scan the offset never decreases and grows by exactly 1
\* per consumed byte; consuming a line feed adds 1 to line and sets column
\* to 1, consuming any other byte leaves line and adds 1 to column; peek,
\* and the refill inside peek or a failing next, change none of the three.
C24_PositionTracking == [][PositionStep]_vars

\* C24 witness: a line feed that was not the first byte has been consumed,
\* after a refill, and the scanner is at line 2, column 1.
C24_Witness ==
    /\ scn.last.op = "next" /\ scn.last.err = NoErr /\ scn.last.b = LF
    /\ scn.s.offset >= 2 /\ scn.s.line = 2 /\ scn.s.column = 1
    /\ scn.s.cap = 1

\* next has returned the bytes of the source in order, none lost, doubled
\* or moved.
DeliveredInOrder ==
    /\ Len(scn.delivered) <= Len(scn.src)
    /\ scn.delivered = SubSeq(scn.src, 1, Len(scn.delivered))
    /\ scn.s.offset = Len(scn.delivered)

\* A next that follows a peek returns the byte the peek showed.
PeekThenNextAgree ==
    (/\ scn.last.op = "next" /\ scn.last.err = NoErr
     /\ scn.prev.op = "peek" /\ scn.prev.err = NoErr) => scn.last.b = scn.prev.b

\* peek or next has reported end of input.
ReportedEndOfInput == scn.last.op # "none" /\ scn.last.err = ioEOF

\* End of input is reported only after the source has returned io.EOF and
\* all its bytes were delivered.
EndOfInputOnlyAtEnd ==
    ReportedEndOfInput => scn.s.eof /\ scn.delivered = scn.src

\* Every Read of the source returns at least one byte or io.EOF.
ReadsMakeProgress == \A i \in DOMAIN scn.plan : scn.plan[i] > 0

\* C28: for every buffer size and every split of the source's data over
\* its Read calls, next returns the source's bytes in order, peek followed
\* by next returns the same byte, and end of input is reported only after
\* the source has signalled it and all bytes were delivered.
C28_ByteStream ==
    /\ DeliveredInOrder
    /\ PeekThenNextAgree
    /\ EndOfInputOnlyAtEnd

\* The same for sources none of whose Reads returns 0, nil.
ByteStreamWhenReadsMakeProgress ==
    ReadsMakeProgress => C28_ByteStream

\* All bytes of a 3-byte source were delivered through a 1-byte buffer
\* and end of input was reported after them.
DeliveredWholeSource ==
    /\ ReportedEndOfInput /\ Len(scn.src) = MaxScanLen /\ scn.delivered = scn.src
    /\ scn.s.cap = 1 /\ ReadsMakeProgress

\* parseNext of a new decoder over the input from offset from on.
parseNextFrom(from) ==
    parseNext(newScanner(newReader(SubSeq(input, from + 1, Len(input)), "strings"),
                         dec.options.bufferSize), dec.options)

\* The last Decode began at a byte that an earlier Decode had already
\* looked at with peek and not consumed.
DecodeReexamined == call.op = "Decode" /\ call.seen > call.from

\* C25 as stated: across the Decode calls on one decoder the offset never
\* decreases and no input byte is examined by more than one call.
C25_Original ==
    call.op = "Decode" => /\ dec.scanner.offset >= call.from
                          /\ ~DecodeReexamined

\* C25: across the Decode calls on one decoder, failing ones included, the
\* offset never decreases, so no byte is consumed by two calls; a call
\* ends just after the bytes it consumed and the next call does what a new
\* decoder over the rest of the input would do; the only byte a call can
\* look at that an earlier call has looked at is the one byte at which
\* that call stopped without consuming it.
C25_NoBacktracking ==
    call.op = "Decode" =>
        With(parseNextFrom(call.from), LAMBDA r :
            /\ dec.scanner.offset >= call.from
            /\ dec.scanner.offset = call.from + r.s.offset
            /\ call.perr = r.err
            /\ call.perr = NoErr => call.json = r.buf
            /\ call.seen <= call.from + 1)

\* C25 witness: a Decode failed inside a value, having consumed bytes, and
\* the next Decode began at the byte the failed one stopped at and
\* returned a value.
C25_Witness ==
    /\ DecodeReexamined /\ ndec >= 2 /\ call.from > 0
    /\ call.err = NoErr /\ dec.scanner.offset > call.from

\* A Decode failed at a byte it consumed: the next one begins after it.
DecodeAfterConsumedFailure ==
    /\ call.op = "Decode" /\ ndec = 2 /\ call.from > 0 /\ ~DecodeReexamined
    /\ CandidatesFrom(input, 0) # {} /\ call.from < Len(input)

Brackets == {LBRACE, RBRACE, LBRACKET, RBRACKET}
BracketFree(d) == \A i \in DOMAIN d : d[i] \notin Brackets
FirstCandidate(data) == CHOOSE i \in Candidates(data) : \A j \in Candidates(data) : i <= j

\* data is bracket-free noise, one value that the parser and the standard
\* deserializer accept, and bracket-free noise again.
OneValueInNoise(data, o) ==
    /\ Candidates(data) # {}
    /\ With(FirstCandidate(data), LAMBDA i :
         /\ BracketFree(SubSeq(data, 1, i - 1))
         /\ With(parseNext(newScanner(newReader(SubSeq(data, i, Len(data)), "bytes"),
                                      o.bufferSize), o), LAMBDA r :
              /\ r.err = NoErr
              /\ jsonUnmarshal(r.buf, NewDest("interface")).err = NoErr
              /\ BracketFree(SubSeq(data, i + r.s.offset, Len(data)))))

\* The first Decode of a decoder over such an input has returned.
FirstDecodeOfOneValue ==
    call.op = "Decode" /\ ndec = 1 /\ OneValueInNoise(input, opts)

\* What Unmarshal stores for the same input, options and destination.
BatchOfSameInput == Unmarshal(input, NewDest(kind), opts)

\* C26: for an input made of bracket-free noise around one valid value,
\* the first Decode stores what Unmarshal stores on its noisy path into an
\* equal destination.
C26_SamePipeline ==
    (FirstDecodeOfOneValue /\ BatchOfSameInput.path = "robust") =>
        /\ BatchOfSameInput.err = call.err
        /\ BatchOfSameInput.dest = call.dest

\* The same for values without a backslash.
SamePipelineWithoutEscapes ==
    (\A i \in DOMAIN input : input[i] # BACKSLASH) => C26_SamePipeline

\* Both modes stored the same non-empty value into a map.
SamePipelineReached ==
    /\ FirstDecodeOfOneValue /\ BatchOfSameInput.path = "robust"
    /\ call.err = NoErr /\ kind = "map" /\ BatchOfSameInput.dest = call.dest
    /\ \E i \in DOMAIN input : input[i] = BACKSLASH

\* v with every string leaf, at every depth, decoded once more.
RECURSIVE everyLeafDecoded(_)
everyLeafDecoded(v) ==
    IF v.t = "str" THEN [v EXCEPT !.s = decodeEscapeSequences(v.s)]
    ELSE IF v.t = "arr" \/ v.t = "obj"
    THEN [v EXCEPT !.e = [j \in DOMAIN v.e |-> everyLeafDecoded(v.e[j])]]
    ELSE v

\* Unmarshal has succeeded on its noisy path into a generic destination.
NoisyBatchSucceeded ==
    /\ call.op = "Unmarshal" /\ call.path = "robust" /\ call.err = NoErr
    /\ kind \in {"map", "slice", "interface"}

\* What the standard deserializer stores for the chosen candidate.
StandardDecoded == jsonUnmarshal(call.json, NewDest(kind)).dest.v

\* C27: after a successful noisy-path Unmarshal into a generic map, a
\* generic slice or an untyped interface value, every string leaf of the
\* stored value, at every depth, has been decoded once more.
C27_EveryLeafDecoded ==
    NoisyBatchSucceeded => call.dest.v = everyLeafDecoded(StandardDecoded)

\* The same for map and slice destinations only.
EveryLeafDecodedInMapAndSlice ==
    kind \in {"map", "slice"} => C27_EveryLeafDecoded

\* A string one level down was decoded once more, in a slice in a slice
\* or in a map in a map.
NestedLeafDecoded ==
    /\ NoisyBatchSucceeded /\ kind \in {"map", "slice"}
    /\ input \in NestedStringInputs
    /\ call.dest.v # StandardDecoded
    /\ call.dest.v.e[1].t = call.dest.v.t

\* The bytes the last Decode consumed.
ConsumedByDecode == SubSeq(input, call.from + 1, dec.scanner.offset)

\* A Decode that did not end with end of input consumed at least one byte,
\* so that a sequence of calls on a finite stream comes to end of input.
DecodeMakesProgress ==
    (call.op = "Decode" /\ call.err # ioEOF) => dec.scanner.offset > call.from

\* A Decode that returned a value consumed an opening bracket of its own,
\* so that there are at most as many values as opening brackets.
DecodeValueTakesBracket ==
    (call.op = "Decode" /\ call.perr = NoErr) =>
        \E i \in DOMAIN ConsumedByDecode : ConsumedByDecode[i] \in {LBRACE, LBRACKET}

\* C29: Decode calls on a finite stream return at most as many values as
\* the stream has opening brackets and then fail with end of input: every
\* call that is not the end of input moves the stream forward, and every
\* value uses up an opening bracket.
C29_Termination ==
    /\ DecodeMakesProgress
    /\ DecodeValueTakesBracket

\* The same for decoders whose depth limit admits a top-level value.
TerminationWhenTopLevelFits ==
    opts.maxDepth > 1 => C29_Termination

\* A second Decode failed exactly where and as the first one did.
DecodeStuck ==
    /\ call.op = "Decode" /\ ndec >= 2 /\ call.from = 0 /\ dec.scanner.offset = 0
    /\ isDepthError(call.err)

\* The parse attempt parseLongest makes at the candidate at index i.
attemptAt(i) ==
    parseNext(newScanner(newReader(SubSeq(input, i, Len(input)), "bytes"),
                         opts.bufferSize), opts)

\* Candidate k starts inside the bytes the accepted candidate i consumed
\* and is accepted with a longer re-emission.
LongerFragmentInside(i, k) ==
    /\ attemptAt(i).err = NoErr
    /\ i < k /\ k < i + attemptAt(i).s.offset
    /\ attemptAt(k).err = NoErr
    /\ Len(attemptAt(k).buf) > Len(attemptAt(i).buf)

\* Unmarshal has searched the input for its longest candidate.
SearchedLongest == call.op = "Unmarshal" /\ call.path = "robust"

\* C30: when the candidate at i is accepted and consumes the bytes from i
\* up to j, no candidate that starts strictly between i and j has a longer
\* re-emission, so none is the value returned.
C30_NoInnerFragment ==
    SearchedLongest =>
        \A i \in Candidates(input), k \in Candidates(input) : ~LongerFragmentInside(i, k)

\* The same for inputs without a string, where a candidate inside an
\* accepted value is one of its nested containers.
NoInnerFragmentWithoutStrings ==
    (\A n \in DOMAIN input : input[n] # QUOTE) => C30_NoInnerFragment

\* Unmarshal returned a fragment that starts inside an accepted value.
ReturnedInnerFragment ==
    /\ SearchedLongest /\ call.err = NoErr
    /\ \E i \in Candidates(input), k \in Candidates(input) :
          LongerFragmentInside(i, k) /\ call.json = attemptAt(k).buf

\* An accepted value with an accepted nested container was searched.
NestedCandidateShorter ==
    /\ SearchedLongest /\ call.err = NoErr
    /\ \E i \in Candidates(input), k \in Candidates(input) :
          /\ attemptAt(i).err = NoErr /\ attemptAt(k).err = NoErr
          /\ i < k /\ k < i + attemptAt(i).s.offset
          /\ call.json = attemptAt(i).buf

====
